---- MODULE Spec2Model ----
(***************************************************************************)
(* Poker-grid scoring core of twin-hands: the 5-card hand evaluator, the   *)
(* joker pipeline, the top-K line scorer and the Monte Carlo evaluator.    *)
(* Every operator is translated from the Python source it is named after.  *)
(***************************************************************************)
EXTENDS Integers, Sequences, FiniteSets, TLC

VARIABLES
    ev_cards,       \* PokerEvaluator.evaluate_hand: the argument `cards`
    ev_hand,        \* PokerEvaluator.evaluate_hand: the returned HandResource
    ev_done,        \* TRUE once evaluate_hand has returned for ev_cards
    jokers,         \* the JokerResource objects, by object id
    active_jokers,  \* JokerManager.active_jokers: list of object ids
    jk_calls,       \* number of apply_joker_effects calls made directly
    jk_last,        \* arguments and outcome of the last such call
    grid,           \* GameStateResource.grid: grid[row][col] is a cell
    frozen_cells,   \* GameStateResource.frozen_cells: list of <<row, col>>
    rng,            \* state of Python's global random generator
    lines_scored_per_spin,  \* GameConfigResource.lines_scored_per_spin
    joker_manager,  \* ScoreManager.joker_manager: "None" or "JokerManager"
    sc_deals,       \* number of deal_grid calls made
    sc_calls,       \* number of score_current_grid calls made
    sc_result,      \* outcome of the last score_current_grid call
    lines_scored_per_hand,  \* config attribute of that name: <<value>>, or
                    \* <<>> when the config has no such attribute
    mc_calls,       \* number of estimate_expected_score calls made
    mc_last,        \* arguments and outcome of the last such call
    mc_prev,        \* arguments and outcome of the call before the last
    money,          \* GameStateResource.money
    grid_sets,      \* number of GridCellResource.set_card calls made directly
    ai_calls,       \* number of recommend_freezes calls made
    ai_last,        \* arguments and outcome of the last AI recommendation
    th_cards,       \* Twin Hands evaluate_hand: the argument `cards`
    th_hand,        \* Twin Hands evaluate_hand: evaluator used and outcome
    th_config,      \* the TwinHandsConfig of the GameManager
    decks,          \* TwinHandsState.decks: list of DeckResource
    hands_played_per_deck,  \* TwinHandsState.hands_played_per_deck
    discard_tokens, \* TwinHandsState.discard_tokens
    trade_tokens,   \* TwinHandsState.trade_tokens
    _hands_played,  \* GameManager._hands_played
    gm_starts,      \* number of GameManager.start_game calls made
    gm_calls,       \* number of play_hand, discard_cards, trade_card calls
    gm_last,        \* arguments and outcome of the last GameManager call
    gr_config,      \* the GameConfigResource of the poker-grid GameManager
    spins_left,     \* GameStateResource.spins_left
    spins_taken,    \* GameStateResource.spins_taken
    reroll_tokens_left,  \* GameStateResource.reroll_tokens_left
    current_round,  \* GameStateResource.current_round
    gr_calls,       \* number of poker-grid GameManager and state calls made
    gr_last         \* operation, arguments and outcome of the last such call

evalVars == <<ev_cards, ev_hand, ev_done>>

jokerVars == <<jokers, active_jokers, jk_calls, jk_last>>

scoreVars == <<grid, frozen_cells, rng, lines_scored_per_spin, joker_manager,
               sc_deals, sc_calls, sc_result>>

mcVars == <<lines_scored_per_hand, mc_calls, mc_last, mc_prev>>

aiVars == <<money, grid_sets, ai_calls, ai_last>>

thEvalVars == <<th_cards, th_hand>>

gmVars == <<th_config, decks, hands_played_per_deck, discard_tokens,
            trade_tokens, _hands_played, gm_starts, gm_calls, gm_last>>

grVars == <<gr_config, spins_left, spins_taken, reroll_tokens_left,
            current_round, gr_calls, gr_last>>

vars == <<ev_cards, ev_hand, ev_done, jokers, active_jokers, jk_calls, jk_last,
          grid, frozen_cells, rng, lines_scored_per_spin, joker_manager,
          sc_deals, sc_calls, sc_result, lines_scored_per_hand, mc_calls,
          mc_last, mc_prev, money, grid_sets, ai_calls, ai_last, th_cards,
          th_hand, th_config, decks, hands_played_per_deck, discard_tokens,
          trade_tokens, _hands_played, gm_starts, gm_calls, gm_last,
          gr_config, spins_left, spins_taken, reroll_tokens_left,
          current_round, gr_calls, gr_last>>

(***************************************************************************)
(* Bounds of the model.                                                    *)
(***************************************************************************)
NumEvalSuits == 2       \* suits the evaluated hands are drawn from

MaxSlots == 2           \* JokerManager(max_slots=MaxSlots)

MaxCalls == 3           \* direct apply_joker_effects calls per behaviour

MaxSeed == 2            \* random.seed(n) with n in 0..MaxSeed

MaxK == 4               \* lines_scored_per_spin ranges over -1..MaxK and 11

MaxDeals == 2           \* deal_grid calls per behaviour

MaxScores == 1          \* score_current_grid calls per behaviour

MaxSamples == 2         \* estimate_expected_score(samples=n), n in 0..MaxSamples

MaxEstimates == 2       \* estimate_expected_score calls per behaviour

(***************************************************************************)
(* GameConfigResource: class constants.                                    *)
(***************************************************************************)
SUITS == <<"H", "D", "C", "S">>

RANKS == <<"2", "3", "4", "5", "6", "7", "8", "9", "T", "J", "Q", "K", "A">>

RANK_VALUES(rank) ==
    CASE rank = "2" -> 2 [] rank = "3" -> 3 [] rank = "4" -> 4
      [] rank = "5" -> 5 [] rank = "6" -> 6 [] rank = "7" -> 7
      [] rank = "8" -> 8 [] rank = "9" -> 9 [] rank = "T" -> 10
      [] rank = "J" -> 11 [] rank = "Q" -> 12 [] rank = "K" -> 13
      [] rank = "A" -> 14

HAND_SCORES(hand_type) ==
    CASE hand_type = "Five of a Kind" -> 160
      [] hand_type = "Royal Flush" -> 150
      [] hand_type = "Straight Flush" -> 110
      [] hand_type = "Four of a Kind" -> 90
      [] hand_type = "Full House" -> 70
      [] hand_type = "Flush" -> 55
      [] hand_type = "Straight" -> 45
      [] hand_type = "Three of a Kind" -> 30
      [] hand_type = "Two Pair" -> 20
      [] hand_type = "One Pair" -> 10
      [] hand_type = "High Card" -> 3

grid_rows == 5

grid_cols == 5

max_freezes == 2

(***************************************************************************)
(* CardResource, HandResource.                                             *)
(***************************************************************************)
CardResource(rank, suit) == [rank |-> rank, suit |-> suit]

\* Python None in a place that holds a CardResource
NoCard == [rank |-> "", suit |-> ""]

get_rank_value(card) == RANK_VALUES(card.rank)

HandResource(cards, hand_type, chips, mult) ==
    [cards |-> cards, hand_type |-> hand_type, chips |-> chips, mult |-> mult]

\* CardFactory.create_deck: for suit in SUITS: for rank in RANKS
create_deck ==
    [i \in 1..52 |-> CardResource(RANKS[((i - 1) % 13) + 1], SUITS[((i - 1) \div 13) + 1])]

(***************************************************************************)
(* Python built-ins used by the evaluator.                                 *)
(***************************************************************************)
RECURSIVE InsertAsc(_, _)
InsertAsc(x, s) ==
    IF s = <<>> THEN <<x>>
    ELSE IF x < Head(s) THEN <<x>> \o s
    ELSE <<Head(s)>> \o InsertAsc(x, Tail(s))

\* sorted(list of ints)
RECURSIVE SortedInts(_)
SortedInts(s) ==
    IF s = <<>> THEN <<>>
    ELSE InsertAsc(s[Len(s)], SortedInts(SubSeq(s, 1, Len(s) - 1)))

\* stable insertion behind every card whose rank value is >= the new one
RECURSIVE InsertByRankDesc(_, _)
InsertByRankDesc(c, s) ==
    IF s = <<>> THEN <<c>>
    ELSE IF get_rank_value(Head(s)) >= get_rank_value(c)
         THEN <<Head(s)>> \o InsertByRankDesc(c, Tail(s))
         ELSE <<c>> \o s

\* sorted(cards, key=lambda c: c.get_rank_value(), reverse=True)  (stable)
RECURSIVE SortedByRankDesc(_)
SortedByRankDesc(cards) ==
    IF cards = <<>> THEN <<>>
    ELSE InsertByRankDesc(cards[Len(cards)],
                          SortedByRankDesc(SubSeq(cards, 1, Len(cards) - 1)))

RECURSIVE SetToSeq(_)
SetToSeq(S) ==
    IF S = {} THEN <<>>
    ELSE LET x == CHOOSE y \in S : TRUE IN <<x>> \o SetToSeq(S \ {x})

(***************************************************************************)
(* PokerEvaluator (5-card grid evaluator).                                 *)
(***************************************************************************)
\* Counter(card.rank for card in cards)
_get_rank_counts(cards) ==
    [r \in {cards[i].rank : i \in DOMAIN cards} |->
        Cardinality({i \in DOMAIN cards : cards[i].rank = r})]

\* rank_counts.values(), as the list of counts
CounterValues(rank_counts) ==
    LET ks == SetToSeq(DOMAIN rank_counts)
    IN  [i \in DOMAIN ks |-> rank_counts[ks[i]]]

InValues(n, rank_counts) == \E r \in DOMAIN rank_counts : rank_counts[r] = n

_is_flush(cards) ==
    LET suits == {cards[i].suit : i \in DOMAIN cards}
    IN  Cardinality(suits) = 1

_is_straight_nowheel(cards) ==
    LET values == SortedInts([i \in DOMAIN cards |-> get_rank_value(cards[i])])
    IN  values = [i \in 1..5 |-> values[1] + i - 1]

_is_straight(cards) ==
    LET values == SortedInts([i \in DOMAIN cards |-> get_rank_value(cards[i])])
    IN  IF values = [i \in 1..5 |-> values[1] + i - 1] THEN TRUE
        ELSE IF values = <<2, 3, 4, 5, 14>> THEN TRUE
        ELSE FALSE

_is_royal_flush(cards) ==
    IF ~_is_flush(cards) THEN FALSE
    ELSE {cards[i].rank : i \in DOMAIN cards} = {"T", "J", "Q", "K", "A"}

_is_straight_flush(cards) ==
    IF _is_royal_flush(cards) THEN FALSE
    ELSE _is_flush(cards) /\ _is_straight(cards)

_is_five_of_a_kind(cards) == InValues(5, _get_rank_counts(cards))

_is_four_of_a_kind(cards) == InValues(4, _get_rank_counts(cards))

_is_full_house(cards) ==
    SortedInts(CounterValues(_get_rank_counts(cards))) = <<2, 3>>

_is_three_of_a_kind(cards) ==
    InValues(3, _get_rank_counts(cards)) /\ ~_is_full_house(cards)

_is_two_pair(cards) ==
    LET rank_counts == _get_rank_counts(cards)
        pairs == {r \in DOMAIN rank_counts : rank_counts[r] = 2}
    IN  Cardinality(pairs) = 2

_is_one_pair(cards) ==
    InValues(2, _get_rank_counts(cards)) /\ ~_is_two_pair(cards)

evaluate_hand(cards) ==
    IF Len(cards) # 5
    THEN HandResource(cards, "Invalid", 0, 1)
    ELSE LET sorted_cards == SortedByRankDesc(cards)
             hand_type ==
                 IF _is_five_of_a_kind(sorted_cards) THEN "Five of a Kind"
                 ELSE IF _is_royal_flush(sorted_cards) THEN "Royal Flush"
                 ELSE IF _is_straight_flush(sorted_cards) THEN "Straight Flush"
                 ELSE IF _is_four_of_a_kind(sorted_cards) THEN "Four of a Kind"
                 ELSE IF _is_full_house(sorted_cards) THEN "Full House"
                 ELSE IF _is_flush(sorted_cards) THEN "Flush"
                 ELSE IF _is_straight(sorted_cards) THEN "Straight"
                 ELSE IF _is_three_of_a_kind(sorted_cards) THEN "Three of a Kind"
                 ELSE IF _is_two_pair(sorted_cards) THEN "Two Pair"
                 ELSE IF _is_one_pair(sorted_cards) THEN "One Pair"
                 ELSE "High Card"
         IN  HandResource(sorted_cards, hand_type, HAND_SCORES(hand_type), 1)

(***************************************************************************)
(* Python values of JokerResource.bonus_value / current_bonus.              *)
(* A float is kept in halves (half = 2 * value); a str is the list of its   *)
(* characters.                                                              *)
(***************************************************************************)
FloatVal(half) == [kind |-> "float", half |-> half, text |-> <<>>]

StrVal(text) == [kind |-> "str", half |-> 0, text |-> text]

NoExc == ""

\* int(x) of a float: truncation toward zero
Trunc(half) == IF half >= 0 THEN half \div 2 ELSE -((-half) \div 2)

IsDigit(ch) == ch \in {"0", "1", "2", "3", "4", "5", "6", "7", "8", "9"}

DigitVal(ch) ==
    CASE ch = "0" -> 0 [] ch = "1" -> 1 [] ch = "2" -> 2 [] ch = "3" -> 3
      [] ch = "4" -> 4 [] ch = "5" -> 5 [] ch = "6" -> 6 [] ch = "7" -> 7
      [] ch = "8" -> 8 [] ch = "9" -> 9

DigitChar(d) == <<"0", "1", "2", "3", "4", "5", "6", "7", "8", "9">>[d + 1]

RECURSIVE DigitsVal(_)
DigitsVal(text) ==
    IF text = <<>> THEN 0
    ELSE 10 * DigitsVal(SubSeq(text, 1, Len(text) - 1)) + DigitVal(text[Len(text)])

\* int(s) of a str: the decimal digits, ValueError otherwise
PyIntStr(text) ==
    IF text # <<>> /\ \A i \in DOMAIN text : IsDigit(text[i])
    THEN [exc |-> NoExc, val |-> DigitsVal(text)]
    ELSE [exc |-> "ValueError", val |-> 0]

\* int(v)
PyInt(v) ==
    IF v.kind = "float" THEN [exc |-> NoExc, val |-> Trunc(v.half)]
    ELSE PyIntStr(v.text)

RECURSIVE Repeat(_, _)
Repeat(text, n) == IF n <= 0 THEN <<>> ELSE text \o Repeat(text, n - 1)

\* v * n  and  n * v  for an int n: float product, or str repetition
PyMul(v, n) ==
    IF v.kind = "float" THEN FloatVal(v.half * n)
    ELSE StrVal(Repeat(v.text, n))

RECURSIVE NatDigits(_)
NatDigits(n) ==
    IF n < 10 THEN <<DigitChar(n)>>
    ELSE NatDigits(n \div 10) \o <<DigitChar(n % 10)>>

\* str(v): repr of a non-negative float ("5.0", "2.5"), or the str itself
PyStr(v) ==
    IF v.kind = "float"
    THEN NatDigits(v.half \div 2) \o <<".">> \o <<DigitChar((v.half % 2) * 5)>>
    ELSE v.text

\* s.split(sep)
RECURSIVE Split(_, _)
Split(text, sep) ==
    IF \A i \in DOMAIN text : text[i] # sep THEN <<text>>
    ELSE LET k == CHOOSE i \in DOMAIN text :
                      text[i] = sep /\ \A j \in 1..(i - 1) : text[j] # sep
         IN  <<SubSeq(text, 1, k - 1)>> \o Split(SubSeq(text, k + 1, Len(text)), sep)

\* s.replace(ch, "")
RECURSIVE Remove(_, _)
Remove(text, ch) ==
    IF text = <<>> THEN <<>>
    ELSE IF Head(text) = ch THEN Remove(Tail(text), ch)
    ELSE <<Head(text)>> \o Remove(Tail(text), ch)

(***************************************************************************)
(* JokerResource.  condition_value is the list of its "|"-separated parts   *)
(* with the separators kept ("A|K" is <<"A", "|", "K">>).                   *)
(***************************************************************************)
JokerResource(name, effect_type, trigger, condition_type, condition_value, bonus_type, bonus_value, per_card, grow_per) ==
    [name |-> name, effect_type |-> effect_type, trigger |-> trigger,
     condition_type |-> condition_type, condition_value |-> condition_value,
     bonus_type |-> bonus_type, bonus_value |-> bonus_value,
     per_card |-> per_card, grow_per |-> grow_per,
     current_bonus |-> FloatVal(0)]

\* truth value of joker.per_card: False, True or the str "first_only"
Truthy(per_card) == per_card # "False"

grow_overwrite(joker) ==
    IF joker.effect_type = "growing" /\ joker.bonus_value.kind = "float"
    THEN [exc |-> NoExc,
          joker |-> [joker EXCEPT !.current_bonus = joker.bonus_value]]
    ELSE [exc |-> NoExc, joker |-> joker]

\* JokerResource.grow(): returns the joker and the exception raised, if any
grow(joker) ==
    IF joker.effect_type = "growing"
    THEN LET growth == joker.bonus_value
         IN  IF growth.kind = "float"
             THEN [exc |-> NoExc,
                   joker |-> [joker EXCEPT !.current_bonus =
                                  FloatVal(joker.current_bonus.half + growth.half)]]
             ELSE [exc |-> "TypeError", joker |-> joker]
    ELSE [exc |-> NoExc, joker |-> joker]

get_effective_bonus(joker) ==
    IF joker.effect_type = "growing" THEN joker.current_bonus
    ELSE joker.bonus_value

\* JokerResource.duplicate() on object id of the store js: a new object
\* with the same field values; returns the store and the new object's id
duplicate_alias(js, id) == [js |-> js, id |-> id]

duplicate(js, id) == [js |-> Append(js, js[id]), id |-> Len(js) + 1]

(***************************************************************************)
(* JokerManager.                                                           *)
(***************************************************************************)
\* add_joker: the new active_jokers list
add_joker(ids, max_slots, id) ==
    IF Len(ids) >= max_slots THEN ids ELSE Append(ids, id)

AnyCard(cards, P(_)) == \E i \in DOMAIN cards : P(cards[i])

CountCards(cards, P(_)) == Cardinality({i \in DOMAIN cards : P(cards[i])})

IsFace(card) == card.rank \in {"J", "Q", "K"}

IsEven(card) == card.rank \in {"2", "4", "6", "8", "T"}

IsOdd(card) == card.rank \in {"3", "5", "7", "9", "A"}

\* the parts of condition_value.split("|"), each joined back to one str
SplitRanks(condition_value) ==
    LET parts == Split(condition_value, "|")
    IN  {parts[i] : i \in DOMAIN parts}

_check_condition_always(joker, hand, cards) == TRUE

_check_condition(joker, hand, cards) ==
    LET condition_type == joker.condition_type
        condition_value == joker.condition_value
        HasSuit(card) == <<card.suit>> = condition_value
        HasRank(card) == <<card.rank>> \in SplitRanks(condition_value)
    IN  IF joker.trigger = "always" THEN TRUE
        ELSE IF condition_type = "" THEN TRUE
        ELSE IF condition_type = "hand_type"
             THEN <<hand.hand_type>> = condition_value
        ELSE IF condition_type = "suit" THEN AnyCard(cards, HasSuit)
        ELSE IF condition_type = "rank" THEN AnyCard(cards, HasRank)
        ELSE IF condition_type = "card_type" /\ condition_value = <<"face">>
             THEN AnyCard(cards, IsFace)
        ELSE IF condition_type = "rank_parity" /\ condition_value = <<"even">>
             THEN AnyCard(cards, IsEven)
        ELSE IF condition_type = "rank_parity" /\ condition_value = <<"odd">>
             THEN AnyCard(cards, IsOdd)
        ELSE IF condition_type = "card_position"
                /\ condition_value = <<"first_face">>
             THEN AnyCard(cards, IsFace)
        ELSE FALSE

_count_matching_cards(joker, cards) ==
    LET condition_type == joker.condition_type
        condition_value == joker.condition_value
        HasSuit(card) == <<card.suit>> = condition_value
        HasRank(card) == <<card.rank>> \in SplitRanks(condition_value)
    IN  IF condition_type = "suit" THEN CountCards(cards, HasSuit)
        ELSE IF condition_type = "rank" THEN CountCards(cards, HasRank)
        ELSE IF condition_type = "card_type" /\ condition_value = <<"face">>
             THEN CountCards(cards, IsFace)
        ELSE IF condition_type = "rank_parity" /\ condition_value = <<"even">>
             THEN CountCards(cards, IsEven)
        ELSE IF condition_type = "rank_parity" /\ condition_value = <<"odd">>
             THEN CountCards(cards, IsOdd)
        ELSE 0

Effect(exc, chips, mult) == [exc |-> exc, chips |-> chips, mult |-> mult]

\* chips += int(x)   /   mult += int(x)
AddInt(x, chips, mult, to_mult) ==
    LET n == PyInt(x)
    IN  IF n.exc # NoExc THEN Effect(n.exc, chips, mult)
        ELSE IF to_mult THEN Effect(NoExc, chips, mult + n.val)
        ELSE Effect(NoExc, chips + n.val, mult)

\* mult = int(mult * bonus_value)
TimesMult(bonus_value, chips, mult) ==
    LET n == PyInt(PyMul(bonus_value, mult))
    IN  IF n.exc # NoExc THEN Effect(n.exc, chips, mult)
        ELSE Effect(NoExc, chips, n.val)

\* the "++" branch: bonus_value "<chips>c<mult>m", both scaled by the count
ChipsAndMult(joker, cards, chips, mult) ==
    LET count == _count_matching_cards(joker, cards)
        values == Split(PyStr(joker.bonus_value), "c")
        c == PyIntStr(values[1])
    IN  IF c.exc # NoExc THEN Effect(c.exc, chips, mult)
        ELSE IF Len(values) < 2 THEN Effect("IndexError", chips, mult)
        ELSE LET m == PyIntStr(Remove(values[2], "m"))
             IN  IF m.exc # NoExc THEN Effect(m.exc, chips, mult)
                 ELSE Effect(NoExc, chips + c.val * count, mult + m.val * count)

\* the generic dispatch on per_card and bonus_type
GenericEffect(joker, cards, chips, mult) ==
    LET bonus_value == get_effective_bonus(joker)
        bonus_type == joker.bonus_type
    IN  IF Truthy(joker.per_card)
        THEN LET count == _count_matching_cards(joker, cards)
             IN  IF bonus_type = "+m"
                 THEN AddInt(PyMul(bonus_value, count), chips, mult, TRUE)
                 ELSE IF bonus_type = "+c"
                 THEN AddInt(PyMul(bonus_value, count), chips, mult, FALSE)
                 ELSE Effect(NoExc, chips, mult)
        ELSE IF bonus_type = "+m" THEN AddInt(bonus_value, chips, mult, TRUE)
        ELSE IF bonus_type = "+c" THEN AddInt(bonus_value, chips, mult, FALSE)
        ELSE IF bonus_type = "Xm" THEN TimesMult(bonus_value, chips, mult)
        ELSE IF bonus_type = "++" THEN ChipsAndMult(joker, cards, chips, mult)
        ELSE Effect(NoExc, chips, mult)

\* a special case without the break: one multiplication per face card
RECURSIVE TimesPerFace(_, _, _)
TimesPerFace(joker, cards, g) ==
    IF cards = <<>> \/ g.exc # NoExc THEN g
    ELSE IF IsFace(Head(cards))
    THEN TimesPerFace(joker, Tail(cards),
                      TimesMult(get_effective_bonus(joker), g.chips, g.mult))
    ELSE TimesPerFace(joker, Tail(cards), g)

FirstFaceEffect_no_break(joker, cards, g) ==
    IF g.exc # NoExc THEN g
    ELSE IF /\ joker.condition_type = "card_position"
            /\ joker.condition_value = <<"first_face">>
         THEN TimesPerFace(joker, cards, g)
         ELSE g

\* the special case that ends _apply_effect (card_position / first_face),
\* g being the outcome of the dispatch on per_card and bonus_type
FirstFaceEffect(joker, cards, g) ==
    IF g.exc # NoExc THEN g
    ELSE IF /\ joker.condition_type = "card_position"
            /\ joker.condition_value = <<"first_face">>
            /\ AnyCard(cards, IsFace)
         THEN TimesMult(get_effective_bonus(joker), g.chips, g.mult)
         ELSE g

_apply_effect(joker, hand, cards, chips, mult) ==
    FirstFaceEffect(joker, cards, GenericEffect(joker, cards, chips, mult))

\* the end of an iteration whose joker triggered: e is the outcome of
\* _apply_effect, gr that of joker.grow()
Triggered(js, id, chips, mult, e, gr) ==
    IF e.exc # NoExc
    THEN [exc |-> e.exc, chips |-> chips, mult |-> mult, js |-> js]
    ELSE IF js[id].effect_type = "growing" /\ js[id].grow_per = "line"
    THEN [exc |-> gr.exc, chips |-> e.chips, mult |-> e.mult,
          js |-> [js EXCEPT ![id] = gr.joker]]
    ELSE [exc |-> NoExc, chips |-> e.chips, mult |-> e.mult, js |-> js]

\* an iteration that grows the joker before it applies its effect
JokerIter_grow_first(js, id, hand, cards, chips, mult) ==
    IF js[id].trigger # "always" /\ js[id].trigger # "on_scored"
    THEN [exc |-> NoExc, chips |-> chips, mult |-> mult, js |-> js]
    ELSE IF ~_check_condition(js[id], hand, cards)
    THEN [exc |-> NoExc, chips |-> chips, mult |-> mult, js |-> js]
    ELSE IF js[id].effect_type = "growing" /\ js[id].grow_per = "line"
    THEN Triggered(js, id, chips, mult,
                   _apply_effect(grow(js[id]).joker, hand, cards, chips, mult),
                   grow(js[id]))
    ELSE Triggered(js, id, chips, mult,
                   _apply_effect(js[id], hand, cards, chips, mult), grow(js[id]))

\* one iteration of the loop of apply_joker_effects, on the joker object id
\* of the object store js
JokerIter(js, id, hand, cards, chips, mult) ==
    IF js[id].trigger # "always" /\ js[id].trigger # "on_scored"
    THEN [exc |-> NoExc, chips |-> chips, mult |-> mult, js |-> js]
    ELSE IF ~_check_condition(js[id], hand, cards)
    THEN [exc |-> NoExc, chips |-> chips, mult |-> mult, js |-> js]
    ELSE Triggered(js, id, chips, mult,
                   _apply_effect(js[id], hand, cards, chips, mult), grow(js[id]))

RECURSIVE apply_joker_effects(_, _, _, _, _, _)
\* the rest of the loop after the iteration on Head(ids), whose outcome is r;
\* an exception ends the loop
RestOfJokers(r, ids, hand, cards) ==
    IF r.exc # NoExc THEN r
    ELSE apply_joker_effects(r.js, Tail(ids), hand, cards, r.chips, r.mult)

\* apply_joker_effects over the manager's list ids
apply_joker_effects(js, ids, hand, cards, base_chips, base_mult) ==
    IF ids = <<>>
    THEN [exc |-> NoExc, chips |-> base_chips, mult |-> base_mult, js |-> js]
    ELSE RestOfJokers(JokerIter(js, Head(ids), hand, cards, base_chips, base_mult),
                      ids, hand, cards)

(***************************************************************************)
(* Python's global random generator.  A linear congruential sequence       *)
(* stands for the generator's state; random.choice indexes its argument    *)
(* by the generator's next output.                                         *)
(***************************************************************************)
RandNext(x) == (x * 75 + 74) % 65537

random_choice(x, seq) ==
    [rng |-> RandNext(x), value |-> seq[(RandNext(x) % Len(seq)) + 1]]

\* DeckResource.draw_random on a non-empty deck: a duplicate of the chosen
\* card (a CardResource of the same rank and suit)
draw_random(x, cards) ==
    LET ch == random_choice(x, cards)
    IN  [rng |-> ch.rng, card |-> CardResource(ch.value.rank, ch.value.suit)]

(***************************************************************************)
(* GridCellResource, GameStateResource, GridManager.                       *)
(***************************************************************************)
GridCellResource(card, is_frozen) == [card |-> card, is_frozen |-> is_frozen]

\* GameStateResource.grid after construction: every cell empty, unfrozen
EmptyGrid ==
    [row \in 0..(grid_rows - 1) |->
        [col \in 0..(grid_cols - 1) |-> GridCellResource(NoCard, FALSE)]]

IsCard(card) == card # NoCard

get_row(g, row_index) ==
    SelectSeq([i \in 1..grid_cols |-> g[row_index][i - 1].card], IsCard)

get_col(g, col_index) ==
    SelectSeq([i \in 1..grid_rows |-> g[i - 1][col_index].card], IsCard)

\* every cell is redrawn, frozen or not
RECURSIVE DealAll(_, _, _)
DealAll(g, x, pos) ==
    IF pos >= grid_rows * grid_cols THEN [grid |-> g, rng |-> x]
    ELSE DealAll([g EXCEPT ![pos \div grid_cols][pos % grid_cols].card =
                      draw_random(x, create_deck).card],
                 draw_random(x, create_deck).rng, pos + 1)

deal_grid_all(g, x) == DealAll(g, x, 0)

\* the loop of deal_grid from cell number pos (row-major) on
RECURSIVE DealFrom(_, _, _)
DealFrom(g, x, pos) ==
    IF pos >= grid_rows * grid_cols THEN [grid |-> g, rng |-> x]
    ELSE LET row_idx == pos \div grid_cols
             col_idx == pos % grid_cols
         IN  IF g[row_idx][col_idx].is_frozen THEN DealFrom(g, x, pos + 1)
             ELSE LET d == draw_random(x, create_deck)
                  IN  DealFrom([g EXCEPT ![row_idx][col_idx].card = d.card],
                               d.rng, pos + 1)

deal_grid(g, x) == DealFrom(g, x, 0)

(***************************************************************************)
(* ScoreManager.                                                           *)
(***************************************************************************)
_apply_jokers_to_hand(manager, js, ids, hand, cards) ==
    IF manager # "None"
    THEN apply_joker_effects(js, ids, hand, cards, hand.chips, hand.mult)
    ELSE [exc |-> NoExc, chips |-> hand.chips, mult |-> hand.mult, js |-> js]

\* an entry of all_lines; rank 0 stands for the absent 'rank' key
LineResult(type, index, score, hand) ==
    [type |-> type, index |-> index, score |-> score, hand |-> hand, rank |-> 0]

\* all_lines, row_hands and col_hands after line n was scored as `scored`
AppendLine(acc, n, scored, js) ==
    [exc |-> NoExc, js |-> js,
     row_hands |-> IF n < grid_rows THEN Append(acc.row_hands, scored)
                   ELSE acc.row_hands,
     col_hands |-> IF n < grid_rows THEN acc.col_hands
                   ELSE Append(acc.col_hands, scored),
     all_lines |-> Append(acc.all_lines,
                          LineResult(IF n < grid_rows THEN "row" ELSE "col",
                                     IF n < grid_rows THEN n ELSE n - grid_rows,
                                     scored.chips * scored.mult, scored))]

\* hand.chips = final_chips; hand.mult = final_mult
ScoredHand(hand, final_chips, final_mult) ==
    [hand EXCEPT !.chips = final_chips, !.mult = final_mult]

\* the two loops of score_current_grid from line number n on: lines
\* 0 .. grid_rows-1 are the rows, the following grid_cols lines the columns
RECURSIVE ScoreLines(_, _, _, _, _)
\* line n once _apply_jokers_to_hand has returned r (or raised r.exc)
LineScored(g, manager, ids, n, acc, hand, r) ==
    IF r.exc # NoExc THEN [acc EXCEPT !.exc = r.exc, !.js = r.js]
    ELSE ScoreLines(g, manager, ids, n + 1,
                    AppendLine(acc, n, ScoredHand(hand, r.chips, r.mult), r.js))

\* line n once its 5 cards are evaluated as hand
LineHand(g, manager, ids, n, acc, cards, hand) ==
    LineScored(g, manager, ids, n, acc, hand,
               _apply_jokers_to_hand(manager, acc.js, ids, hand, cards))

\* line n, cards being the cards of its non-empty cells
LineCards(g, manager, ids, n, acc, cards) ==
    IF Len(cards) # 5 THEN ScoreLines(g, manager, ids, n + 1, acc)
    ELSE LineHand(g, manager, ids, n, acc, cards, evaluate_hand(cards))

ScoreLines(g, manager, ids, n, acc) ==
    IF n >= grid_rows + grid_cols \/ acc.exc # NoExc THEN acc
    ELSE LineCards(g, manager, ids, n, acc,
                   IF n < grid_rows THEN get_row(g, n) ELSE get_col(g, n - grid_rows))

get_priority_cols_first(line) ==
    IF line.type = "row" THEN <<1, line.index>> ELSE <<0, line.index>>

get_priority(line) ==
    IF line.type = "row" THEN <<0, line.index>> ELSE <<1, line.index>>

\* (-a.score, get_priority(a)) < (-b.score, get_priority(b)) on tuples
KeyLess(a, b) ==
    LET pa == get_priority(a)
        pb == get_priority(b)
    IN  \/ -a.score < -b.score
        \/ /\ a.score = b.score
           /\ \/ pa[1] < pb[1]
              \/ pa[1] = pb[1] /\ pa[2] < pb[2]

RECURSIVE InsertLine(_, _)
InsertLine(line, s) ==
    IF s = <<>> THEN <<line>>
    ELSE IF KeyLess(line, Head(s)) THEN <<line>> \o s
    ELSE <<Head(s)>> \o InsertLine(line, Tail(s))

\* sorted(all_lines, key=...): stable, ascending in the key
RECURSIVE SortedLines(_)
SortedLines(lines) ==
    IF lines = <<>> THEN <<>>
    ELSE InsertLine(lines[Len(lines)], SortedLines(SubSeq(lines, 1, Len(lines) - 1)))

PyMin(a, b) == IF b < a THEN b ELSE a

PyMax(a, b) == IF b > a THEN b ELSE a

TopCount_all(K, n) == n

\* k = max(0, min(lines_scored_per_spin, len(sorted_lines)))
TopCount(K, n) == PyMax(0, PyMin(K, n))

AssignRank_first_only(score, scores) == IF score = scores[1] THEN 1 ELSE 3

\* the rank given to a line of the top k, scores being the top k's scores
AssignRank(score, scores) ==
    IF score = scores[1] THEN 1
    ELSE IF Len(scores) > 1 /\ score = scores[2] THEN 2
    ELSE 3

RECURSIVE PySum(_)
PySum(s) == IF s = <<>> THEN 0 ELSE Head(s) + PySum(Tail(s))

_get_top_lines(all_lines, K) ==
    IF all_lines = <<>> THEN [top_lines |-> <<>>, total_score |-> 0]
    ELSE LET sorted_lines == SortedLines(all_lines)
             k == TopCount(K, Len(sorted_lines))
             top_k_positions == SubSeq(sorted_lines, 1, k)
             scores == [i \in DOMAIN top_k_positions |-> top_k_positions[i].score]
         IN  IF top_k_positions = <<>>
             THEN [top_lines |-> <<>>, total_score |-> 0]
             ELSE [top_lines |->
                      [i \in DOMAIN top_k_positions |->
                          [top_k_positions[i] EXCEPT
                              !.rank = AssignRank(top_k_positions[i].score, scores)]],
                   total_score |-> PySum(scores)]

\* the end of score_current_grid, acc being the outcome of its two loops
ScoreReturn(acc, top) ==
    IF acc.exc # NoExc
    THEN [exc |-> acc.exc, js |-> acc.js, total_score |-> 0,
          row_hands |-> <<>>, col_hands |-> <<>>, top_lines |-> <<>>,
          all_lines |-> <<>>]
    ELSE [exc |-> NoExc, js |-> acc.js, total_score |-> top.total_score,
          row_hands |-> acc.row_hands, col_hands |-> acc.col_hands,
          top_lines |-> top.top_lines, all_lines |-> acc.all_lines]

TopOfLines(acc, K) == ScoreReturn(acc, _get_top_lines(acc.all_lines, K))

\* score_current_grid: the returned tuple, the exception raised if any, the
\* joker objects afterwards and the local all_lines
score_current_grid(g, manager, js, ids, K) ==
    TopOfLines(ScoreLines(g, manager, ids, 0,
                          [exc |-> NoExc, js |-> js, row_hands |-> <<>>,
                           col_hands |-> <<>>, all_lines |-> <<>>]), K)

(***************************************************************************)
(* AIEvaluator.estimate_expected_score.                                    *)
(***************************************************************************)
\* the per-sample JokerManager: add_joker(j.duplicate()) for j in
\* active_jokers[i..], on a manager of max_slots slots holding ids
RECURSIVE DuplicateInto(_, _, _, _, _)
DuplicateInto(js, active, i, max_slots, ids) ==
    IF i > Len(active) THEN [js |-> js, ids |-> ids]
    ELSE LET d == duplicate(js, active[i])
         IN  DuplicateInto(d.js, active, i + 1, max_slots,
                           add_joker(ids, max_slots, d.id))

\* a frozen_set that holds no cell
InFrozen_never(frozen, r, c) == FALSE

\* (r, c) in frozen_set
InFrozen(frozen, r, c) == \E i \in DOMAIN frozen : frozen[i] = <<r, c>>

\* the loop filling temp_cards from cell number pos (row-major) on
RECURSIVE TempFrom(_, _, _, _, _)
TempFrom(grid_cards, frozen, temp, x, pos) ==
    IF pos >= grid_rows * grid_cols THEN [temp_cards |-> temp, rng |-> x]
    ELSE LET r == pos \div grid_cols
             c == pos % grid_cols
         IN  IF InFrozen(frozen, r, c) /\ grid_cards[r][c] # NoCard
             THEN TempFrom(grid_cards, frozen,
                           [temp EXCEPT ![r][c] = grid_cards[r][c]], x, pos + 1)
             ELSE LET d == draw_random(x, create_deck)
                  IN  TempFrom(grid_cards, frozen,
                               [temp EXCEPT ![r][c] = d.card], d.rng, pos + 1)

\* AIEvaluator._apply_jokers_to_hand; ids is <<>> and manager "None" when
\* joker_manager is None
MC_apply_jokers_to_hand(manager, js, ids, hand, cards) ==
    IF manager = "None"
    THEN [exc |-> NoExc, chips |-> hand.chips, mult |-> hand.mult, js |-> js]
    ELSE apply_joker_effects(js, ids, hand, cards, hand.chips, hand.mult)

\* all(line)
AllCards(line) == \A i \in DOMAIN line : line[i] # NoCard

\* the row loop and the column loop of a sample from line number n on
RECURSIVE SampleLines(_, _, _, _, _)
\* line n once _apply_jokers_to_hand has returned r (or raised r.exc)
SampleLineScored(temp, manager, ids, n, acc, r) ==
    SampleLines(temp, manager, ids, n + 1,
                [exc |-> r.exc, js |-> r.js,
                 line_scores |-> IF r.exc = NoExc
                                 THEN Append(acc.line_scores, r.chips * r.mult)
                                 ELSE acc.line_scores])

\* line n once it is evaluated as hand
SampleLineHand(temp, manager, ids, n, acc, line, hand) ==
    SampleLineScored(temp, manager, ids, n, acc,
                     MC_apply_jokers_to_hand(manager, acc.js, ids, hand, line))

\* line n, line being its 5 cells
SampleLine(temp, manager, ids, n, acc, line) ==
    IF ~AllCards(line) THEN SampleLines(temp, manager, ids, n + 1, acc)
    ELSE SampleLineHand(temp, manager, ids, n, acc, line, evaluate_hand(line))

SampleLines(temp, manager, ids, n, acc) ==
    IF n >= grid_rows + grid_cols \/ acc.exc # NoExc THEN acc
    ELSE SampleLine(temp, manager, ids, n, acc,
                    IF n < grid_rows
                    THEN [i \in 1..grid_cols |-> temp[n][i - 1]]
                    ELSE [i \in 1..grid_rows |-> temp[i - 1][n - grid_rows]])

Reverse(s) == [i \in DOMAIN s |-> s[Len(s) + 1 - i]]

\* s[:k]
PyPrefix(s, k) ==
    IF k >= 0 THEN SubSeq(s, 1, PyMin(k, Len(s)))
    ELSE SubSeq(s, 1, PyMax(0, Len(s) + k))

\* getattr(config, 'lines_scored_per_hand', 3)
GetPerHand(attr) == IF attr = <<>> THEN 3 ELSE attr[1]

\* temp_cards before it is filled: None everywhere
NoTemp == [r \in 0..(grid_rows - 1) |-> [c \in 0..(grid_cols - 1) |-> NoCard]]

\* line_scores.sort(reverse=True); sum(line_scores[:k]), when line_scores
\* is not empty
SampleTotal(line_scores, k) ==
    IF line_scores # <<>>
    THEN PySum(PyPrefix(Reverse(SortedInts(line_scores)), k))
    ELSE 0

\* the end of an iteration: dup holds the sample's jokers, t its temp_cards
\* and sc the outcome of its line loops
SampleScored(dup, t, sc, attr) ==
    [exc |-> sc.exc, js |-> sc.js, rng |-> t.rng, ids |-> dup.ids,
     start |-> [i \in DOMAIN dup.ids |-> dup.js[dup.ids[i]]],
     temp_cards |-> t.temp_cards,
     total |-> SampleTotal(sc.line_scores, GetPerHand(attr))]

SampleDealt(dup, t, manager, attr) ==
    SampleScored(dup, t,
                 SampleLines(t.temp_cards, manager, dup.ids, 0,
                             [exc |-> NoExc, js |-> dup.js, line_scores |-> <<>>]),
                 attr)

\* one iteration of the sample loop
Sample(js, active, grid_cards, frozen, x, attr) ==
    SampleDealt(IF active # <<>>
                THEN DuplicateInto(js, active, 1, Len(active), <<>>)
                ELSE [js |-> js, ids |-> <<>>],
                TempFrom(grid_cards, frozen, NoTemp, x, 0),
                IF active # <<>> THEN "JokerManager" ELSE "None",
                attr)

\* what the model records of a finished iteration s
SampleRecord(s) ==
    [ids |-> s.ids, start |-> s.start,
     end |-> [i \in DOMAIN s.ids |-> s.js[s.ids[i]]],
     temp_cards |-> s.temp_cards, total |-> s.total]

\* for _ in range(samples), with `left` iterations to go
RECURSIVE SampleLoop(_, _, _, _, _, _, _, _, _)
\* the rest of the loop after an iteration with outcome s
RestOfSamples(active, grid_cards, frozen, attr, left, chips_sum, hist, s) ==
    IF s.exc # NoExc
    THEN [exc |-> s.exc, js |-> s.js, rng |-> s.rng,
          chips_sum |-> chips_sum, hist |-> Append(hist, SampleRecord(s))]
    ELSE SampleLoop(s.js, active, grid_cards, frozen, s.rng, attr,
                    left - 1, chips_sum + s.total, Append(hist, SampleRecord(s)))

SampleLoop(js, active, grid_cards, frozen, x, attr, left, chips_sum, hist) ==
    IF left <= 0
    THEN [exc |-> NoExc, js |-> js, rng |-> x, chips_sum |-> chips_sum, hist |-> hist]
    ELSE RestOfSamples(active, grid_cards, frozen, attr, left, chips_sum, hist,
                       Sample(js, active, grid_cards, frozen, x, attr))

\* return chips_sum / float(samples), l being the outcome of the sample loop
DivideBySamples(l, samples) ==
    [exc |-> IF l.exc # NoExc THEN l.exc
             ELSE IF samples = 0 THEN "ZeroDivisionError"
             ELSE NoExc,
     num |-> l.chips_sum, den |-> samples,
     js |-> l.js, rng |-> l.rng, hist |-> l.hist]

\* estimate_expected_score: the returned float is num / den
estimate_expected_score(js, grid_cards, frozen, attr, active, samples, x) ==
    DivideBySamples(SampleLoop(js, active, grid_cards, frozen, x, attr, samples,
                               0, <<>>),
                    samples)

(***************************************************************************)
(* SpecEval: evaluate_hand applied to hands over a part of the deck that   *)
(* holds the wheel, the royal ranks and NumEvalSuits suits; a card may     *)
(* occur more than once in a hand (draws are with replacement).            *)
(***************************************************************************)
EvalRanks == {"A", "2", "3", "4", "5", "T", "J", "Q", "K"}

\* positions in create_deck of the cards the evaluated hands are made of
EvalDeck ==
    {i \in 1..52 : /\ create_deck[i].rank \in EvalRanks
                   /\ (i - 1) \div 13 < NumEvalSuits}

NoHand == HandResource(<<>>, "", 0, 0)

NoCall ==
    [called |-> FALSE, cards |-> <<>>, hand |-> NoHand, pre |-> <<>>,
     ids |-> <<>>, exc |-> NoExc, chips |-> 0, mult |-> 0]

InitJokerRest ==
    /\ jokers = <<>>
    /\ active_jokers = <<>>
    /\ jk_calls = 0
    /\ jk_last = NoCall

NoScore ==
    [called |-> FALSE, exc |-> NoExc, total_score |-> 0, row_hands |-> <<>>,
     col_hands |-> <<>>, top_lines |-> <<>>, all_lines |-> <<>>]

InitScoreRest ==
    /\ grid = EmptyGrid
    /\ frozen_cells = <<>>
    /\ rng = 0
    /\ lines_scored_per_spin = 3
    /\ joker_manager = "None"
    /\ sc_deals = 0
    /\ sc_calls = 0
    /\ sc_result = NoScore

NoEstimate ==
    [called |-> FALSE, exc |-> NoExc, num |-> 0, den |-> 0, samples |-> 0,
     rng_seed |-> 0,
     grid_cards |-> <<>>, frozen_cells |-> <<>>, active_jokers |-> <<>>,
     before |-> <<>>, after |-> <<>>, hist |-> <<>>]

InitMCRest ==
    /\ lines_scored_per_hand = <<>>
    /\ mc_calls = 0
    /\ mc_last = NoEstimate
    /\ mc_prev = NoEstimate

\* no AI recommendation asked yet
NoAdvice == [called |-> FALSE]

InitAIRest ==
    /\ money = 0
    /\ grid_sets = 0
    /\ ai_calls = 0
    /\ ai_last = NoAdvice

NoTHHand == [called |-> FALSE]

InitTHEvalRest ==
    /\ th_cards = <<>>
    /\ th_hand = NoTHHand

NoGMCall == [called |-> FALSE]

\* a GameManager that is not constructed
InitGMRest ==
    /\ th_config = <<>>
    /\ decks = <<>>
    /\ hands_played_per_deck = <<>>
    /\ discard_tokens = 0
    /\ trade_tokens = 0
    /\ _hands_played = <<>>
    /\ gm_starts = 0
    /\ gm_calls = 0
    /\ gm_last = NoGMCall

NoGridCall == [called |-> FALSE]

\* the counters of a poker-grid game that is not played
InitGridRest ==
    /\ gr_config = <<>>
    /\ spins_left = 0
    /\ spins_taken = 0
    /\ reroll_tokens_left = 0
    /\ current_round = 0
    /\ gr_calls = 0
    /\ gr_last = NoGridCall

InitEvalRest ==
    /\ ev_hand = NoHand
    /\ ev_done = FALSE

InitEval ==
    /\ \E a \in EvalDeck : \E b \in {x \in EvalDeck : x >= a} :
       \E c \in {x \in EvalDeck : x >= b} : \E d \in {x \in EvalDeck : x >= c} :
       \E e \in {x \in EvalDeck : x >= d} : \E n \in {4, 5} :
          ev_cards = SubSeq(<<create_deck[a], create_deck[b], create_deck[c],
                              create_deck[d], create_deck[e]>>, 1, n)
    /\ InitEvalRest
    /\ InitAIRest
    /\ InitTHEvalRest
    /\ InitGMRest
    /\ InitGridRest
    /\ InitJokerRest
    /\ InitScoreRest
    /\ InitMCRest

EvaluateHand ==
    /\ ~ev_done
    /\ ev_hand' = evaluate_hand(ev_cards)
    /\ ev_done' = TRUE
    /\ UNCHANGED ev_cards
    /\ UNCHANGED aiVars
    /\ UNCHANGED thEvalVars
    /\ UNCHANGED gmVars
    /\ UNCHANGED grVars
    /\ UNCHANGED jokerVars
    /\ UNCHANGED scoreVars
    /\ UNCHANGED mcVars

NextEval == EvaluateHand

SpecEval == InitEval /\ [][NextEval]_vars

(***************************************************************************)
(* SpecJoker: a JokerManager filled from a catalog of jokers, and          *)
(* apply_joker_effects called on scored lines, as ScoreManager and the     *)
(* tests call it (base chips and mult taken from the evaluated hand).      *)
(***************************************************************************)
JokerCatalog ==
    { JokerResource("Joker", "instant", "always", "", <<>>, "+m", FloatVal(8), "False", "None"),
      JokerResource("Chips", "instant", "always", "", <<>>, "+c", FloatVal(20), "False", "None"),
      JokerResource("Multiply", "instant", "always", "", <<>>, "Xm", FloatVal(4), "False", "None"),
      JokerResource("Half", "instant", "on_scored", "", <<>>, "Xm", FloatVal(3), "False", "None"),
      JokerResource("Jolly", "instant", "on_scored", "hand_type", <<"One Pair">>, "+m", FloatVal(16), "False", "None"),
      JokerResource("Greedy", "instant", "on_scored", "suit", <<"D">>, "+m", FloatVal(6), "True", "None"),
      JokerResource("Even", "instant", "on_scored", "rank_parity", <<"even">>, "+c", FloatVal(5), "True", "None"),
      JokerResource("Odd", "instant", "on_scored", "rank_parity", <<"odd">>, "+c", FloatVal(2), "False", "None"),
      JokerResource("Runner", "growing", "on_scored", "hand_type", <<"Straight">>, "+c", FloatVal(30), "False", "line"),
      JokerResource("Ride", "growing", "on_scored", "card_type", <<"face">>, "+m", FloatVal(2), "False", "line"),
      JokerResource("Campfire", "growing", "always", "", <<>>, "+m", FloatVal(4), "False", "round"),
      JokerResource("Photograph", "instant", "on_scored", "card_position", <<"first_face">>, "Xm", FloatVal(4), "False", "None"),
      JokerResource("Portrait", "instant", "on_scored", "card_position", <<"first_face">>, "+m", FloatVal(6), "False", "None"),
      JokerResource("FaceTimes", "instant", "on_scored", "card_type", <<"face">>, "Xm", FloatVal(4), "True", "None"),
      JokerResource("Held", "instant", "on_held", "", <<>>, "+m", FloatVal(10), "False", "None"),
      JokerResource("Scholar", "instant", "on_scored", "rank", <<"A", "|", "K">>, "++", StrVal(<<"2", "0", "c", "4", "m">>), "False", "None"),
      JokerResource("Foil", "instant", "on_scored", "edition", <<"foil">>, "+m", FloatVal(10), "False", "None"),
      JokerResource("Lowest", "instant", "on_scored", "card_type", <<"lowest_rank">>, "+m", StrVal(<<"2", "x">>), "False", "None"),
      JokerResource("Minus", "instant", "always", "", <<>>, "-m", FloatVal(10), "False", "None"),
      JokerResource("Packed", "instant", "always", "", <<>>, "++", FloatVal(10), "False", "None"),
      JokerResource("Doubler", "instant", "always", "", <<>>, "+m", StrVal(<<"2", "x">>), "False", "None") }

JokerLines ==
    { <<CardResource("A", "S"), CardResource("A", "H"), CardResource("K", "S"),
        CardResource("Q", "S"), CardResource("J", "S")>>,
      <<CardResource("5", "S"), CardResource("4", "H"), CardResource("3", "D"),
        CardResource("2", "C"), CardResource("A", "S")>>,
      <<CardResource("A", "D"), CardResource("K", "D"), CardResource("Q", "D"),
        CardResource("J", "S"), CardResource("T", "S")>>,
      <<CardResource("2", "H"), CardResource("4", "H"), CardResource("6", "H"),
        CardResource("8", "H"), CardResource("T", "H")>>,
      <<CardResource("9", "C"), CardResource("7", "D"), CardResource("5", "C"),
        CardResource("3", "H"), CardResource("2", "S")>> }

InitJoker ==
    /\ ev_cards = <<>>
    /\ InitEvalRest
    /\ InitAIRest
    /\ InitTHEvalRest
    /\ InitGMRest
    /\ InitGridRest
    /\ InitJokerRest
    /\ InitScoreRest
    /\ InitMCRest

\* manager.add_joker(joker) with a joker object made from the catalog
AddJoker ==
    \E j \in JokerCatalog :
        /\ jk_calls = 0
        /\ Len(active_jokers) < MaxSlots
        /\ jokers' = Append(jokers, j)
        /\ active_jokers' = add_joker(active_jokers, MaxSlots, Len(jokers) + 1)
        /\ UNCHANGED <<jk_calls, jk_last>>
        /\ UNCHANGED evalVars
        /\ UNCHANGED aiVars
        /\ UNCHANGED thEvalVars
        /\ UNCHANGED gmVars
        /\ UNCHANGED grVars
        /\ UNCHANGED scoreVars
        /\ UNCHANGED mcVars

\* apply_joker_effects has returned r (or raised r.exc); prev is the record
\* of the call before this one
JokerCallReturns(cards, hand, r) ==
    /\ jokers' = r.js
    /\ jk_last' = [called |-> TRUE, cards |-> cards, hand |-> hand,
                   pre |-> jokers, ids |-> active_jokers,
                   exc |-> r.exc, chips |-> r.chips, mult |-> r.mult,
                   prev |-> jk_last]

JokerCallOn(cards, hand) ==
    JokerCallReturns(cards, hand,
                     apply_joker_effects(jokers, active_jokers, hand, cards,
                                         hand.chips, hand.mult))

\* hand = evaluate_hand(cards); manager.apply_joker_effects(hand, cards,
\* hand.chips, hand.mult)
ApplyJokerEffects ==
    \E cards \in JokerLines :
        /\ jk_calls < MaxCalls
        /\ jk_calls' = jk_calls + 1
        /\ JokerCallOn(cards, evaluate_hand(cards))
        /\ UNCHANGED active_jokers
        /\ UNCHANGED evalVars
        /\ UNCHANGED aiVars
        /\ UNCHANGED thEvalVars
        /\ UNCHANGED gmVars
        /\ UNCHANGED grVars
        /\ UNCHANGED scoreVars
        /\ UNCHANGED mcVars

NextJoker == AddJoker \/ ApplyJokerEffects

SpecJoker == InitJoker /\ [][NextJoker]_vars

(***************************************************************************)
(* SpecScore: a game state whose grid is dealt from the seeded generator,  *)
(* cells frozen before or between deals, and a ScoreManager scoring the    *)
(* grid with or without a JokerManager.                                    *)
(***************************************************************************)
CatalogJoker(name) == CHOOSE j \in JokerCatalog : j.name = name

\* the jokers added to the ScoreManager's JokerManager, in order
ScoreJokerLists ==
    { <<>>, <<"Jolly">>, <<"Ride">>, <<"Multiply", "Ride">>, <<"Greedy", "Chips">> }

\* the cells freeze_cell is called on
FreezeChoices == { <<0, 0>>, <<1, 3>> }

InitScore ==
    /\ ev_cards = <<>>
    /\ InitEvalRest
    /\ InitAIRest
    /\ InitTHEvalRest
    /\ InitGMRest
    /\ InitGridRest
    /\ jk_calls = 0
    /\ jk_last = NoCall
    /\ grid = EmptyGrid
    /\ frozen_cells = <<>>
    /\ rng \in 0..MaxSeed
    /\ lines_scored_per_spin \in (-1..MaxK) \cup {grid_rows + grid_cols + 1}
    /\ sc_deals = 0
    /\ sc_calls = 0
    /\ sc_result = NoScore
    /\ InitMCRest
    /\ \/ /\ joker_manager = "None"
          /\ jokers = <<>>
          /\ active_jokers = <<>>
       \/ \E names \in ScoreJokerLists :
          /\ joker_manager = "JokerManager"
          /\ jokers = [i \in DOMAIN names |-> CatalogJoker(names[i])]
          /\ active_jokers = [i \in DOMAIN names |-> i]

\* state.freeze_cell(row, col) returning True
FreezeCell ==
    \E cell \in FreezeChoices :
        /\ \A i \in DOMAIN frozen_cells : frozen_cells[i] # cell
        /\ Len(frozen_cells) < max_freezes
        /\ grid' = [grid EXCEPT ![cell[1]][cell[2]].is_frozen = TRUE]
        /\ frozen_cells' = Append(frozen_cells, cell)
        /\ UNCHANGED <<rng, lines_scored_per_spin, joker_manager, sc_deals,
                       sc_calls, sc_result>>
        /\ UNCHANGED evalVars
        /\ UNCHANGED aiVars
        /\ UNCHANGED thEvalVars
        /\ UNCHANGED gmVars
        /\ UNCHANGED grVars
        /\ UNCHANGED jokerVars
        /\ UNCHANGED mcVars

\* grid_manager.deal_grid()
DealGrid ==
    LET d == deal_grid(grid, rng)
    IN  /\ sc_deals < MaxDeals
        /\ sc_deals' = sc_deals + 1
        /\ grid' = d.grid
        /\ rng' = d.rng
        /\ UNCHANGED <<frozen_cells, lines_scored_per_spin, joker_manager,
                       sc_calls, sc_result>>
        /\ UNCHANGED evalVars
        /\ UNCHANGED aiVars
        /\ UNCHANGED thEvalVars
        /\ UNCHANGED gmVars
        /\ UNCHANGED grVars
        /\ UNCHANGED jokerVars
        /\ UNCHANGED mcVars

\* score_current_grid has returned r (or raised r.exc)
ScoreReturns(r) ==
    /\ jokers' = r.js
    /\ sc_result' = [called |-> TRUE, exc |-> r.exc,
                     total_score |-> r.total_score,
                     row_hands |-> r.row_hands, col_hands |-> r.col_hands,
                     top_lines |-> r.top_lines, all_lines |-> r.all_lines]

\* score_manager.score_current_grid()
ScoreCurrentGrid ==
    /\ sc_calls < MaxScores
    /\ sc_calls' = sc_calls + 1
    /\ ScoreReturns(score_current_grid(grid, joker_manager, jokers, active_jokers,
                                       lines_scored_per_spin))
    /\ UNCHANGED <<grid, frozen_cells, rng, lines_scored_per_spin,
                   joker_manager, sc_deals>>
    /\ UNCHANGED <<active_jokers, jk_calls, jk_last>>
    /\ UNCHANGED evalVars
    /\ UNCHANGED aiVars
    /\ UNCHANGED thEvalVars
    /\ UNCHANGED gmVars
    /\ UNCHANGED grVars
    /\ UNCHANGED mcVars

NextScore == FreezeCell \/ DealGrid \/ ScoreCurrentGrid

SpecScore == InitScore /\ [][NextScore]_vars

(***************************************************************************)
(* SpecMC: estimate_expected_score called as SmartAIManager calls it, on   *)
(* the cards of the state's grid, a candidate freeze plan and the jokers   *)
(* of the JokerManager, after any deals and scorings of the grid.          *)
(***************************************************************************)
MCJokerLists == { <<"Ride">>, <<"Runner", "Jolly">> }

\* seeds of the random.Random object passed as rng
MCSeeds == {7}

\* candidate freeze plans passed as frozen_cells
MCPlans == { <<>>, << <<0, 0>>, <<1, 3>> >> }

InitMC ==
    /\ ev_cards = <<>>
    /\ InitEvalRest
    /\ InitAIRest
    /\ InitTHEvalRest
    /\ InitGMRest
    /\ InitGridRest
    /\ jk_calls = 0
    /\ jk_last = NoCall
    /\ grid = EmptyGrid
    /\ frozen_cells = <<>>
    /\ rng \in 0..MaxSeed
    /\ lines_scored_per_spin = 3
    /\ sc_deals = 0
    /\ sc_calls = 0
    /\ sc_result = NoScore
    /\ lines_scored_per_hand \in {<<>>, <<1>>}
    /\ mc_calls = 0
    /\ mc_last = NoEstimate
    /\ mc_prev = NoEstimate
    /\ \/ /\ joker_manager = "None"
          /\ jokers = <<>>
          /\ active_jokers = <<>>
       \/ \E names \in MCJokerLists :
          /\ joker_manager = "JokerManager"
          /\ jokers = [i \in DOMAIN names |-> CatalogJoker(names[i])]
          /\ active_jokers = [i \in DOMAIN names |-> i]

\* estimate_expected_score has returned e (or raised e.exc)
EstimateReturns(plan, samples, seed, grid_cards, active, e) ==
    /\ jokers' = e.js
    /\ rng' = e.rng
    /\ mc_prev' = mc_last
    /\ mc_last' = [called |-> TRUE, exc |-> e.exc, num |-> e.num,
                   den |-> e.den, samples |-> samples, rng_seed |-> seed,
                   grid_cards |-> grid_cards, frozen_cells |-> plan,
                   active_jokers |-> active,
                   before |-> [i \in DOMAIN active |-> jokers[active[i]]],
                   after |-> [i \in DOMAIN active |-> e.js[active[i]]],
                   hist |-> e.hist]

\* the rng argument, random.Random(seed), is read nowhere in the function
EstimateOn(plan, samples, seed, grid_cards, active) ==
    EstimateReturns(plan, samples, seed, grid_cards, active,
                    estimate_expected_score(jokers, grid_cards, plan,
                        lines_scored_per_hand, active, samples, rng))

\* AIEvaluator.estimate_expected_score(grid_cards, frozen_cells=plan, config,
\* active_jokers, samples, rng=random.Random(seed)) with grid_cards the
\* cards of state.grid and active_jokers a copy of the JokerManager's list
EstimateExpectedScore ==
    \E plan \in MCPlans : \E samples \in 0..MaxSamples : \E seed \in MCSeeds :
        /\ mc_calls < MaxEstimates
        /\ mc_calls' = mc_calls + 1
        /\ EstimateOn(plan, samples, seed,
                      [r \in 0..(grid_rows - 1) |->
                          [c \in 0..(grid_cols - 1) |-> grid[r][c].card]],
                      IF joker_manager # "None" THEN active_jokers ELSE <<>>)
        /\ UNCHANGED <<grid, frozen_cells, lines_scored_per_spin,
                       joker_manager, sc_deals, sc_calls, sc_result>>
        /\ UNCHANGED <<active_jokers, jk_calls, jk_last>>
        /\ UNCHANGED lines_scored_per_hand
        /\ UNCHANGED evalVars
        /\ UNCHANGED aiVars
        /\ UNCHANGED thEvalVars
        /\ UNCHANGED gmVars
        /\ UNCHANGED grVars

NextMC == DealGrid \/ ScoreCurrentGrid \/ EstimateExpectedScore

SpecMC == InitMC /\ [][NextMC]_vars

(***************************************************************************)
(* The shop: JokerResource price fields, ShopManager.get_shop_display,     *)
(* and the shop recommendation of NormalAIManager.                         *)
(***************************************************************************)
\* the fields rarity, cost and sell_value of a JokerResource built without
\* a sell_value (__post_init__ sets it to max(1, cost // 2))
ShopJoker(joker, rarity, cost) ==
    joker @@ [rarity |-> rarity, cost |-> cost,
              sell_value |-> IF 1 >= cost \div 2 THEN 1 ELSE cost \div 2]

\* None in a shop slot
NoJoker == [name |-> "None"]

get_shop_display(shop_inventory) ==
    [i \in DOMAIN shop_inventory |->
        IF shop_inventory[i] # NoJoker
        THEN [index |-> i - 1, joker |-> shop_inventory[i],
              cost |-> shop_inventory[i].cost,
              rarity |-> shop_inventory[i].rarity]
        ELSE [index |-> i - 1, joker |-> NoJoker, cost |-> 0, rarity |-> ""]]

can_afford(m, amount) == m >= amount

has_empty_slot_always(ids, max_slots) == TRUE

has_empty_slot(ids, max_slots) == Len(ids) < max_slots

\* the loop over shop_display from item i on: the ("buy", index) it returns,
\* or <<>> when it ends without returning
RECURSIVE NormalBuyLoop(_, _, _)
NormalBuyLoop(shop_display, i, m) ==
    IF i > Len(shop_display) THEN <<>>
    ELSE IF shop_display[i].joker = NoJoker
         THEN NormalBuyLoop(shop_display, i + 1, m)
         ELSE IF /\ shop_display[i].joker.bonus_type \in {"+m", "+c"}
                 /\ can_afford(m, shop_display[i].joker.cost)
              THEN <<"buy", shop_display[i].index>>
              ELSE NormalBuyLoop(shop_display, i + 1, m)

\* the rest of recommend_shop_action, buy being the outcome of the loop
NormalAfterBuy(buy, m, reroll_cost) ==
    IF buy # <<>> THEN buy
    ELSE IF can_afford(m, reroll_cost) THEN <<"reroll", -1>>
    ELSE <<"none", -1>>

\* NormalAIManager.recommend_shop_action
Normal_recommend_shop_action(manager, ids, max_slots, m, shop_display, reroll_cost) ==
    IF manager = "None" THEN <<"none", -1>>
    ELSE NormalAfterBuy(IF has_empty_slot(ids, max_slots)
                        THEN NormalBuyLoop(shop_display, 1, m)
                        ELSE <<>>,
                        m, reroll_cost)

(***************************************************************************)
(* SpecShop: the shop recommendations of the two AI managers, asked on a   *)
(* shop display built by ShopManager, for a player with some money and a   *)
(* JokerManager of MaxSlots slots.                                         *)
(***************************************************************************)
MaxMoney == 6           \* state.money ranges over 0..MaxMoney

ShopCatalog ==
    { ShopJoker(JokerResource("Hat", "instant", "always", "", <<>>, "+m", FloatVal(4), "False", "None"), "Common", 4),
      ShopJoker(JokerResource("Chips", "instant", "always", "", <<>>, "+c", FloatVal(20), "False", "None"), "Common", 3),
      ShopJoker(JokerResource("Multiply", "instant", "always", "", <<>>, "Xm", FloatVal(4), "False", "None"), "Rare", 6),
      ShopJoker(JokerResource("Ride", "growing", "on_scored", "card_type", <<"face">>, "+m", FloatVal(2), "False", "line"), "Uncommon", 5),
      ShopJoker(JokerResource("Relic", "instant", "on_scored", "suit", <<"D">>, "+$", FloatVal(2), "False", "None"), "Common", 1000) }

ShopItem(name) == CHOOSE j \in ShopCatalog : j.name = name

\* ShopManager.shop_inventory
ShopInventories ==
    { <<>>,
      <<NoJoker, NoJoker, NoJoker>>,
      <<ShopItem("Hat"), NoJoker, NoJoker>>,
      <<ShopItem("Multiply"), ShopItem("Hat"), ShopItem("Chips")>>,
      <<ShopItem("Multiply"), NoJoker, ShopItem("Chips")>>,
      <<ShopItem("Ride"), ShopItem("Chips"), ShopItem("Hat")>>,
      <<NoJoker, ShopItem("Relic"), NoJoker>>,
      <<ShopItem("Chips"), ShopItem("Ride"), ShopItem("Multiply")>> }

RerollCosts == {2, 5}

\* the jokers held by the JokerManager
HeldJokerLists ==
    { <<>>, <<"Chips">>, <<"Multiply">>, <<"Hat", "Chips">>, <<"Relic", "Multiply">> }

InitShop ==
    /\ ev_cards = <<>>
    /\ InitEvalRest
    /\ InitTHEvalRest
    /\ InitGMRest
    /\ InitGridRest
    /\ jk_calls = 0
    /\ jk_last = NoCall
    /\ grid = EmptyGrid
    /\ frozen_cells = <<>>
    /\ rng = 0
    /\ lines_scored_per_spin = 3
    /\ sc_deals = 0
    /\ sc_calls = 0
    /\ sc_result = NoScore
    /\ InitMCRest
    /\ money \in 0..MaxMoney
    /\ grid_sets = 0
    /\ ai_calls = 0
    /\ ai_last = NoAdvice
    /\ \/ /\ joker_manager = "None"
          /\ jokers = <<>>
          /\ active_jokers = <<>>
       \/ \E names \in HeldJokerLists :
          /\ joker_manager = "JokerManager"
          /\ jokers = [i \in DOMAIN names |-> ShopItem(names[i])]
          /\ active_jokers = [i \in DOMAIN names |-> i]

\* a recommendation changes nothing of the game
AdviceFrame ==
    /\ UNCHANGED <<money, grid_sets>>
    /\ UNCHANGED evalVars
    /\ UNCHANGED jokerVars
    /\ UNCHANGED <<grid, frozen_cells, lines_scored_per_spin, joker_manager,
                   sc_deals, sc_calls, sc_result>>
    /\ UNCHANGED mcVars
    /\ UNCHANGED thEvalVars
    /\ UNCHANGED gmVars
    /\ UNCHANGED grVars

ShopAdvice(ai, shop_display, reroll_cost, result) ==
    /\ ai_last' = [called |-> TRUE, ai |-> ai, op |-> "shop",
                   shop_display |-> shop_display, reroll_cost |-> reroll_cost,
                   result |-> result]

NormalShopOn(shop_display, reroll_cost) ==
    ShopAdvice("normal", shop_display, reroll_cost,
               Normal_recommend_shop_action(joker_manager, active_jokers, MaxSlots,
                                            money, shop_display, reroll_cost))

\* NormalAIManager(state, config, joker_manager).recommend_shop_action(
\* shop_manager.get_shop_display(), reroll_cost)
NormalShopAction ==
    \E inv \in ShopInventories : \E reroll_cost \in RerollCosts :
        /\ NormalShopOn(get_shop_display(inv), reroll_cost)
        /\ UNCHANGED <<rng, ai_calls>>
        /\ AdviceFrame

(***************************************************************************)
(* AIEvaluator.evaluate_joker_value and the shop recommendation of         *)
(* SmartAIManager.  A value score is the exact number n / (1000 * c); the  *)
(* infinities of the search loops have inf = -1 or 1.                      *)
(***************************************************************************)
Score(n, c) == [inf |-> 0, n |-> n, c |-> c]

NegInf == [inf |-> -1, n |-> 0, c |-> 1]

PosInf == [inf |-> 1, n |-> 0, c |-> 1]

\* a < b
ScoreLess(a, b) ==
    IF a.inf # 0 \/ b.inf # 0 THEN a.inf < b.inf
    ELSE a.n * b.c < b.n * a.c

\* a >= t / 1000
ScoreAtLeast(a, t) ==
    IF a.inf # 0 THEN a.inf > 0 ELSE a.n >= t * a.c

\* a - b >= t / 1000, for finite a and b
ScoreGapAtLeast(a, b, t) == a.n * b.c - b.n * a.c >= t * a.c * b.c

\* rarity_weight, in tenths
rarity_weight(rarity) ==
    CASE rarity = "Common" -> 10
      [] rarity = "Uncommon" -> 13
      [] rarity = "Rare" -> 17
      [] rarity = "Legendary" -> 25
      [] OTHER -> 10

\* bonus_weight, in tenths
bonus_weight(bonus_type) ==
    CASE bonus_type = "+m" -> 12
      [] bonus_type = "+c" -> 9
      [] bonus_type = "Xm" -> 18
      [] bonus_type = "++" -> 13
      [] OTHER -> 8

\* cond_bonus, in hundredths
cond_bonus(joker) ==
    IF joker.condition_type = "" \/ joker.trigger = "always" THEN 60
    ELSE IF joker.condition_type \in {"hand_type", "card_type", "rank_parity"}
         THEN 50
         ELSE 15

\* synergy, in hundredths
synergy(joker, current_active) ==
    (IF /\ joker.bonus_type \in {"+m", "Xm"}
        /\ \E i \in DOMAIN current_active :
              current_active[i].bonus_type \in {"+c", "++"}
     THEN 60 ELSE 0)
    + (IF /\ joker.bonus_type \in {"+c", "++"}
          /\ \E i \in DOMAIN current_active :
                current_active[i].bonus_type \in {"+m", "Xm"}
       THEN 50 ELSE 0)

evaluate_joker_value(joker, current_active) ==
    Score(rarity_weight(joker.rarity) * bonus_weight(joker.bonus_type)
              * ((100 + cond_bonus(joker) + synergy(joker, current_active)) \div 5)
              * (IF joker.effect_type = "growing" THEN 7 ELSE 5),
          IF 1 >= joker.cost THEN 1 ELSE joker.cost)

\* BUY_THRESHOLD, SELL_THRESHOLD and REROLL_MIN_VALUE, in thousandths
BUY_THRESHOLD == 20

SELL_THRESHOLD == 50

REROLL_MIN_VALUE == 15

\* no shop item chosen yet (best_shop = None)
NoItem == [index |-> -1, joker |-> NoJoker, cost |-> 0, rarity |-> ""]

\* the search for the best shop item from item i on
RECURSIVE BestShopLoop(_, _, _, _)
\* item i has value val
BestShopStep(shop_display, i, active, best, val) ==
    BestShopLoop(shop_display, i + 1, active,
                 IF ScoreLess(best.value, val)
                 THEN [item |-> shop_display[i], value |-> val]
                 ELSE best)

BestShopLoop(shop_display, i, active, best) ==
    IF i > Len(shop_display) THEN best
    ELSE IF shop_display[i].joker = NoJoker
         THEN BestShopLoop(shop_display, i + 1, active, best)
         ELSE BestShopStep(shop_display, i, active, best,
                           evaluate_joker_value(shop_display[i].joker, active))

\* active without its element number idx (0-based)
Without(active, idx) ==
    [k \in 1..(Len(active) - 1) |-> IF k <= idx THEN active[k] ELSE active[k + 1]]

\* the search for the weakest held joker from index idx (0-based) on
RECURSIVE WeakestLoop(_, _, _)
WeakestStep(active, idx, weakest, val) ==
    WeakestLoop(active, idx + 1,
                IF ScoreLess(val, weakest.value)
                THEN [idx |-> idx, value |-> val]
                ELSE weakest)

WeakestLoop(active, idx, weakest) ==
    IF idx >= Len(active) THEN weakest
    ELSE WeakestStep(active, idx, weakest,
                     evaluate_joker_value(active[idx + 1], Without(active, idx)))

\* the reroll and do-nothing decisions
SmartRerollOrNone(best, m, reroll_cost) ==
    IF /\ can_afford(m, reroll_cost)
       /\ (~ScoreAtLeast(best.value, REROLL_MIN_VALUE) \/ best.item = NoItem)
    THEN <<"reroll", -1>>
    ELSE <<"none", -1>>

\* "Decide action", with the outcomes of the two searches
SmartDecide(best, weakest, active, free_slot, m, reroll_cost) ==
    IF best.item # NoItem /\ ScoreAtLeast(best.value, BUY_THRESHOLD)
    THEN IF free_slot /\ can_afford(m, best.item.cost)
         THEN <<"buy", best.item.index>>
         ELSE IF /\ weakest.idx >= 0
                 /\ m + active[weakest.idx + 1].sell_value >= best.item.cost
                 /\ ScoreGapAtLeast(best.value, weakest.value, SELL_THRESHOLD)
              THEN <<"sell", weakest.idx>>
              ELSE SmartRerollOrNone(best, m, reroll_cost)
    ELSE SmartRerollOrNone(best, m, reroll_cost)

\* the function on the list `active` of the held JokerResource objects
SmartShopWith(active, free_slot, m, shop_display, reroll_cost) ==
    SmartDecide(BestShopLoop(shop_display, 1, active,
                             [item |-> NoItem, value |-> NegInf]),
                WeakestLoop(active, 0, [idx |-> -1, value |-> PosInf]),
                active, free_slot, m, reroll_cost)

\* SmartAIManager.recommend_shop_action
Smart_recommend_shop_action(manager, js, ids, max_slots, m, shop_display, reroll_cost) ==
    IF manager = "None" THEN <<"none", -1>>
    ELSE SmartShopWith([i \in DOMAIN ids |-> js[ids[i]]],
                       has_empty_slot(ids, max_slots), m, shop_display,
                       reroll_cost)

SmartShopOn(shop_display, reroll_cost) ==
    ShopAdvice("smart", shop_display, reroll_cost,
               Smart_recommend_shop_action(joker_manager, jokers, active_jokers,
                                           MaxSlots, money, shop_display,
                                           reroll_cost))

\* SmartAIManager(state, config, joker_manager).recommend_shop_action(
\* shop_manager.get_shop_display(), reroll_cost)
SmartShopAction ==
    \E inv \in ShopInventories : \E reroll_cost \in RerollCosts :
        /\ SmartShopOn(get_shop_display(inv), reroll_cost)
        /\ UNCHANGED <<rng, ai_calls>>
        /\ AdviceFrame

NextShop == NormalShopAction \/ SmartShopAction

SpecShop == InitShop /\ [][NextShop]_vars

(***************************************************************************)
(* The freeze heuristics shared by the AI managers, and                    *)
(* NormalAIManager.recommend_freezes.  An entry of `cards` is the record   *)
(* [card, r, c] of the tuple (cell.card, r, c); None is <<>>.              *)
(***************************************************************************)
\* "Gather all cards": the cells from number pos (row-major) on
RECURSIVE GatherCards(_, _)
GatherCards(g, pos) ==
    IF pos >= grid_rows * grid_cols THEN <<>>
    ELSE IF g[pos \div grid_cols][pos % grid_cols].card # NoCard
         THEN <<[card |-> g[pos \div grid_cols][pos % grid_cols].card,
                 r |-> pos \div grid_cols, c |-> pos % grid_cols]>>
              \o GatherCards(g, pos + 1)
         ELSE GatherCards(g, pos + 1)

\* the keys of the dict built by setdefault over all_cards, in insertion
\* order: the ranks
RECURSIVE RankKeys(_, _)
RankKeys(all_cards, seen) ==
    IF all_cards = <<>> THEN seen
    ELSE RankKeys(Tail(all_cards),
                  IF \E i \in DOMAIN seen : seen[i] = Head(all_cards).card.rank
                  THEN seen
                  ELSE Append(seen, Head(all_cards).card.rank))

\* the same for the suits
RECURSIVE SuitKeys(_, _)
SuitKeys(all_cards, seen) ==
    IF all_cards = <<>> THEN seen
    ELSE SuitKeys(Tail(all_cards),
                  IF \E i \in DOMAIN seen : seen[i] = Head(all_cards).card.suit
                  THEN seen
                  ELSE Append(seen, Head(all_cards).card.suit))

\* positions_by_rank[rank]
RECURSIVE PositionsOf(_, _)
PositionsOf(all_cards, rank) ==
    IF all_cards = <<>> THEN <<>>
    ELSE IF Head(all_cards).card.rank = rank
         THEN <<Head(all_cards)>> \o PositionsOf(Tail(all_cards), rank)
         ELSE PositionsOf(Tail(all_cards), rank)

\* by_suit[suit]
RECURSIVE ItemsOf(_, _)
ItemsOf(all_cards, suit) ==
    IF all_cards = <<>> THEN <<>>
    ELSE IF Head(all_cards).card.suit = suit
         THEN <<Head(all_cards)>> \o ItemsOf(Tail(all_cards), suit)
         ELSE ItemsOf(Tail(all_cards), suit)

\* the loops over i and j of one rank, from the pair (i, j) on
RECURSIVE AlignedPairs(_, _, _, _, _)
AlignedPairs(positions, val, i, j, best) ==
    IF i > Len(positions) THEN best
    ELSE IF j > Len(positions)
         THEN AlignedPairs(positions, val, i + 1, i + 2, best)
         ELSE IF /\ \/ positions[i].r = positions[j].r
                    \/ positions[i].c = positions[j].c
                 /\ val > best.val
              THEN AlignedPairs(positions, val, i, j + 1,
                       [val |-> val,
                        cells |-> << <<positions[i].r, positions[i].c>>,
                                     <<positions[j].r, positions[j].c>> >>])
              ELSE AlignedPairs(positions, val, i, j + 1, best)

\* the loop over positions_by_rank.items() from key number k on
RECURSIVE AlignedRanks(_, _, _, _)
\* the key number k, its positions given
AlignedRank(all_cards, ranks, k, best, positions) ==
    AlignedRanks(all_cards, ranks, k + 1,
                 IF Len(positions) < 2 THEN best
                 ELSE AlignedPairs(positions, RANK_VALUES(ranks[k]), 1, 2, best))

AlignedRanks(all_cards, ranks, k, best) ==
    IF k > Len(ranks) THEN best
    ELSE AlignedRank(all_cards, ranks, k, best, PositionsOf(all_cards, ranks[k]))

\* the pair returned is <<>> (None) or two cells
_find_best_aligned_pair(all_cards) ==
    AlignedRanks(all_cards, RankKeys(all_cards, <<>>), 1,
                 [val |-> -1, cells |-> <<>>]).cells

RECURSIVE ItemInsert(_, _)
ItemInsert(item, s) ==
    IF s = <<>> THEN <<item>>
    ELSE IF get_rank_value(Head(s).card) >= get_rank_value(item.card)
         THEN <<Head(s)>> \o ItemInsert(item, Tail(s))
         ELSE <<item>> \o s

\* items.sort(key=lambda t: RANK_VALUES[t[0].rank], reverse=True)  (stable)
RECURSIVE ItemsSorted(_)
ItemsSorted(items) ==
    IF items = <<>> THEN <<>>
    ELSE ItemInsert(items[Len(items)],
                    ItemsSorted(SubSeq(items, 1, Len(items) - 1)))

\* the loop over by_suit.items() from key number k on
RECURSIVE SuitedSuits(_, _, _, _)
\* the key number k, top_two given
SuitedTop(all_cards, suits, k, best, top_two) ==
    IF get_rank_value(top_two[1].card) + get_rank_value(top_two[2].card) > best.val
    THEN SuitedSuits(all_cards, suits, k + 1,
             [val |-> get_rank_value(top_two[1].card)
                          + get_rank_value(top_two[2].card),
              cells |-> << <<top_two[1].r, top_two[1].c>>,
                           <<top_two[2].r, top_two[2].c>> >>])
    ELSE SuitedSuits(all_cards, suits, k + 1, best)

\* the key number k, its items given
SuitedSuit(all_cards, suits, k, best, items) ==
    IF Len(items) < 2 THEN SuitedSuits(all_cards, suits, k + 1, best)
    ELSE SuitedTop(all_cards, suits, k, best, SubSeq(ItemsSorted(items), 1, 2))

SuitedSuits(all_cards, suits, k, best) ==
    IF k > Len(suits) THEN best
    ELSE SuitedSuit(all_cards, suits, k, best, ItemsOf(all_cards, suits[k]))

_find_best_suited(all_cards) ==
    SuitedSuits(all_cards, SuitKeys(all_cards, <<>>), 1,
                [val |-> -1, cells |-> <<>>]).cells

\* the suited pair is looked for first
NormalFreezes_suited_first(aligned, suited, max_to_freeze) ==
    IF suited # <<>> THEN PyPrefix(suited, max_to_freeze)
    ELSE IF aligned # <<>> THEN PyPrefix(aligned, max_to_freeze)
    ELSE <<>>

\* the returns of recommend_freezes, for the outcomes of the two searches
NormalFreezes(aligned, suited, max_to_freeze) ==
    IF aligned # <<>> THEN PyPrefix(aligned, max_to_freeze)
    ELSE IF suited # <<>> THEN PyPrefix(suited, max_to_freeze)
    ELSE <<>>

NormalFreezesOf(cards, max_to_freeze) ==
    NormalFreezes(_find_best_aligned_pair(cards), _find_best_suited(cards),
                  max_to_freeze)

\* NormalAIManager.recommend_freezes
Normal_recommend_freezes(g, max_to_freeze) ==
    NormalFreezesOf(GatherCards(g, 0), max_to_freeze)

(***************************************************************************)
(* SpecNormalFreeze: NormalAIManager.recommend_freezes asked on grids      *)
(* filled cell by cell with set_card, as the tests fill them.              *)
(***************************************************************************)
MaxSetCards == 4        \* set_card calls per behaviour

MaxToFreeze == 2        \* max_to_freeze ranges over 0..MaxToFreeze

MaxRecommends == 1      \* recommend_freezes calls per behaviour

\* the cells set_card is called on
SetCells == { <<0, 0>>, <<0, 2>>, <<2, 0>>, <<2, 2>> }

\* the cards given to set_card
SetCards ==
    { CardResource("A", "H"), CardResource("A", "D"), CardResource("K", "D"),
      CardResource("K", "S"), CardResource("7", "C") }

InitNormalFreeze ==
    /\ ev_cards = <<>>
    /\ InitEvalRest
    /\ InitAIRest
    /\ InitTHEvalRest
    /\ InitGMRest
    /\ InitGridRest
    /\ InitJokerRest
    /\ grid = EmptyGrid
    /\ frozen_cells = <<>>
    /\ rng = 0
    /\ lines_scored_per_spin = 3
    /\ joker_manager = "None"
    /\ sc_deals = 0
    /\ sc_calls = 0
    /\ sc_result = NoScore
    /\ InitMCRest

\* state.grid[r][c].set_card(card)
SetCard ==
    \E cell \in SetCells : \E card \in SetCards :
        /\ grid_sets < MaxSetCards
        /\ grid_sets' = grid_sets + 1
        /\ grid' = [grid EXCEPT ![cell[1]][cell[2]].card = card]
        /\ UNCHANGED <<money, ai_calls, ai_last>>
        /\ UNCHANGED <<frozen_cells, rng, lines_scored_per_spin, joker_manager,
                       sc_deals, sc_calls, sc_result>>
        /\ UNCHANGED evalVars
        /\ UNCHANGED jokerVars
        /\ UNCHANGED mcVars
        /\ UNCHANGED thEvalVars
        /\ UNCHANGED gmVars
        /\ UNCHANGED grVars

\* NormalAIManager(state, config).recommend_freezes(max_to_freeze)
NormalRecommendFreezes ==
    \E max_to_freeze \in 0..MaxToFreeze :
        /\ ai_calls < MaxRecommends
        /\ ai_calls' = ai_calls + 1
        /\ ai_last' = [called |-> TRUE, ai |-> "normal", op |-> "freeze",
                       grid |-> grid, max_to_freeze |-> max_to_freeze,
                       result |-> Normal_recommend_freezes(grid, max_to_freeze)]
        /\ UNCHANGED rng
        /\ AdviceFrame

NextNormalFreeze == SetCard \/ NormalRecommendFreezes

SpecNormalFreeze == InitNormalFreeze /\ [][NextNormalFreeze]_vars

(***************************************************************************)
(* SmartAIManager.recommend_freezes.  A candidate is a sequence of cells;  *)
(* an EV, the float num / den, is the record [num, den].                   *)
(***************************************************************************)
DEFAULT_SAMPLES == 200

CANDIDATE_CAP == 24

\* samples if samples is not None else self.DEFAULT_SAMPLES  (None is <<>>)
used_samples(samples) == IF samples # <<>> THEN samples[1] ELSE DEFAULT_SAMPLES

\* the order of tuples (r, c)
CellLess(p, q) == p[1] < q[1] \/ (p[1] = q[1] /\ p[2] < q[2])

RECURSIVE InsertCell(_, _)
InsertCell(p, s) ==
    IF s = <<>> THEN <<p>>
    ELSE IF CellLess(p, Head(s)) THEN <<p>> \o s
    ELSE <<Head(s)>> \o InsertCell(p, Tail(s))

\* tuple(sorted(s))
RECURSIVE SortedCells(_)
SortedCells(s) ==
    IF s = <<>> THEN <<>>
    ELSE InsertCell(s[Len(s)], SortedCells(SubSeq(s, 1, Len(s) - 1)))

\* "Deduplicate while preserving order", from seed number k on
RECURSIVE Deduplicate(_, _, _, _)
Deduplicate(seeds, k, seen, uniq) ==
    IF k > Len(seeds) THEN uniq
    ELSE IF SortedCells(seeds[k]) \in seen
         THEN Deduplicate(seeds, k + 1, seen, uniq)
         ELSE Deduplicate(seeds, k + 1, seen \cup {SortedCells(seeds[k])},
                          Append(uniq, seeds[k]))

\* SmartAIManager._find_best_aligned_pair: the search of NormalAIManager
Smart_find_best_aligned_pair(all_cards) == _find_best_aligned_pair(all_cards)

\* SmartAIManager._find_best_suited: the search of NormalAIManager
Smart_find_best_suited(all_cards) == _find_best_suited(all_cards)

\* the seeds appended for the outcomes of the searches and of sorted(cards)
Seeds(aligned, suited, ranked, max_to_freeze) ==
    << <<>> >>
    \o (IF aligned # <<>> THEN <<PyPrefix(aligned, max_to_freeze)>> ELSE <<>>)
    \o (IF suited # <<>> THEN <<PyPrefix(suited, max_to_freeze)>> ELSE <<>>)
    \o (IF ranked # <<>>
        THEN << << <<ranked[1].r, ranked[1].c>> >> >>
             \o (IF Len(ranked) > 1 /\ max_to_freeze >= 2
                 THEN << << <<ranked[1].r, ranked[1].c>>,
                            <<ranked[2].r, ranked[2].c>> >> >>
                 ELSE <<>>)
        ELSE <<>>)

CandidatesOf(cards, max_to_freeze) ==
    Deduplicate(Seeds(Smart_find_best_aligned_pair(cards),
                      Smart_find_best_suited(cards),
                      ItemsSorted(cards), max_to_freeze),
                1, {}, <<>>)

\* SmartAIManager._generate_candidates
_generate_candidates(g, max_to_freeze) ==
    CandidatesOf(GatherCards(g, 0), max_to_freeze)

\* ev >= best_ev
EVGreater_or_equal(ev, best_ev) == ev.num * best_ev.den >= best_ev.num * ev.den

\* ev > best_ev
EVGreater(ev, best_ev) == ev.num * best_ev.den > best_ev.num * ev.den

\* for cand in candidates, from candidate number k on; acc holds best_ev
\* and best
RECURSIVE CandidateLoop(_, _, _, _, _, _, _, _, _)
\* the rest of the loop after the estimate e of candidate number k
CandidateScored(cands, k, grid_cards, attr, active, samples, acc, e) ==
    IF e.exc # NoExc
    THEN [exc |-> e.exc, result |-> <<>>, js |-> e.js, rng |-> e.rng,
          evs |-> acc.evs]
    ELSE IF EVGreater([num |-> e.num, den |-> e.den], acc.best_ev)
    THEN CandidateLoop(cands, k + 1, grid_cards, attr, active, samples,
             e.js, e.rng,
             [best_ev |-> [num |-> e.num, den |-> e.den], best |-> cands[k],
              evs |-> Append(acc.evs, [num |-> e.num, den |-> e.den])])
    ELSE CandidateLoop(cands, k + 1, grid_cards, attr, active, samples,
             e.js, e.rng,
             [best_ev |-> acc.best_ev, best |-> acc.best,
              evs |-> Append(acc.evs, [num |-> e.num, den |-> e.den])])

CandidateLoop(cands, k, grid_cards, attr, active, samples, js, x, acc) ==
    IF k > Len(cands)
    THEN [exc |-> NoExc, result |-> acc.best, js |-> js, rng |-> x,
          evs |-> acc.evs]
    ELSE CandidateScored(cands, k, grid_cards, attr, active, samples, acc,
             estimate_expected_score(js, grid_cards, cands[k], attr, active,
                                     samples, x))

\* SmartAIManager.recommend_freezes; best_ev starts at -1.0
Smart_recommend_freezes(g, max_to_freeze, samples, js, active, attr, x) ==
    IF max_to_freeze <= 0
    THEN [exc |-> NoExc, result |-> <<>>, js |-> js, rng |-> x, evs |-> <<>>]
    ELSE CandidateLoop(PyPrefix(_generate_candidates(g, max_to_freeze),
                                CANDIDATE_CAP),
                       1,
                       [r \in 0..(grid_rows - 1) |->
                           [c \in 0..(grid_cols - 1) |-> g[r][c].card]],
                       attr, active, used_samples(samples), js, x,
                       [best_ev |-> [num |-> -1, den |-> 1], best |-> <<>>,
                        evs |-> <<>>])

(***************************************************************************)
(* SpecSmartFreeze: SmartAIManager.recommend_freezes asked on the empty    *)
(* grid and on dealt grids, with and without a joker manager.  The draws   *)
(* of the samples come from the global generator, so a call advances it.   *)
(***************************************************************************)
\* the samples argument (<<n>> for the int n)
SmartSamples == { <<n>> : n \in 0..MaxSamples }

InitSmartFreeze == InitMC

\* recommend_freezes has returned f.result (or raised f.exc)
SmartFreezeReturns(max_to_freeze, samples, candidates, f) ==
    /\ jokers' = f.js
    /\ rng' = f.rng
    /\ ai_last' = [called |-> TRUE, ai |-> "smart", op |-> "freeze",
                   grid |-> grid, max_to_freeze |-> max_to_freeze,
                   samples |-> samples, exc |-> f.exc,
                   candidates |-> candidates, evs |-> f.evs,
                   result |-> f.result]

SmartFreezeOn(max_to_freeze, samples) ==
    SmartFreezeReturns(max_to_freeze, samples,
        IF max_to_freeze <= 0 THEN <<>>
        ELSE PyPrefix(_generate_candidates(grid, max_to_freeze), CANDIDATE_CAP),
        Smart_recommend_freezes(grid, max_to_freeze, samples, jokers,
            IF joker_manager # "None" THEN active_jokers ELSE <<>>,
            lines_scored_per_hand, rng))

\* SmartAIManager(state, config, joker_manager).recommend_freezes(
\*     max_to_freeze, samples)
SmartRecommendFreezes ==
    \E max_to_freeze \in 0..MaxToFreeze : \E samples \in SmartSamples :
        /\ ai_calls < MaxRecommends
        /\ ai_calls' = ai_calls + 1
        /\ SmartFreezeOn(max_to_freeze, samples)
        /\ UNCHANGED <<money, grid_sets>>
        /\ UNCHANGED <<grid, frozen_cells, lines_scored_per_spin,
                       joker_manager, sc_deals, sc_calls, sc_result>>
        /\ UNCHANGED <<active_jokers, jk_calls, jk_last>>
        /\ UNCHANGED evalVars
        /\ UNCHANGED mcVars
        /\ UNCHANGED thEvalVars
        /\ UNCHANGED gmVars
        /\ UNCHANGED grVars

NextSmartFreeze == DealGrid \/ SmartRecommendFreezes

SpecSmartFreeze == InitSmartFreeze /\ [][NextSmartFreeze]_vars

(***************************************************************************)
(* Twin Hands: TwinHandsConfig.HAND_SCORES, the HandResource of            *)
(* src/resources, PokerEvaluator (1 to 5 cards) and ScoringManager         *)
(* (1 to 4 cards).  A dict lookup d[k] with k missing raises KeyError.     *)
(***************************************************************************)
\* the keys of TwinHandsConfig.HAND_SCORES
TwinHands_HAND_SCORES_keys ==
    {"Royal Flush", "Straight Flush", "Four of a Kind", "Flush", "Straight",
     "Three of a Kind", "Two Pair", "Pair", "High Card"}

\* TwinHandsConfig.HAND_SCORES[hand_type], hand_type being a key
TwinHands_HAND_SCORES(hand_type) ==
    CASE hand_type = "Royal Flush" -> 60
      [] hand_type = "Straight Flush" -> 50
      [] hand_type = "Four of a Kind" -> 30
      [] hand_type = "Flush" -> 20
      [] hand_type = "Straight" -> 18
      [] hand_type = "Three of a Kind" -> 15
      [] hand_type = "Two Pair" -> 10
      [] hand_type = "Pair" -> 6
      [] hand_type = "High Card" -> 3

\* the keys of GameConfigResource.RANK_VALUES, which get_rank_value looks
\* the rank up in
RANK_VALUES_keys == { RANKS[i] : i \in DOMAIN RANKS }

\* HandResource(cards, hand_type, base_score, mult); mult is 1.0 throughout
TwinHands_HandResource(cards, hand_type, base_score, mult) ==
    [cards |-> cards, hand_type |-> hand_type, base_score |-> base_score,
     mult |-> mult]

\* Counter(card.rank for card in cards).values(), as the set of counts
RankCountValues(cards) ==
    { Cardinality({j \in DOMAIN cards : cards[j].rank = cards[i].rank}) :
          i \in DOMAIN cards }

\* the number of ranks that occur exactly n times
RanksCounted(cards, n) ==
    Cardinality({ cards[i].rank : i \in { i \in DOMAIN cards :
        Cardinality({j \in DOMAIN cards : cards[j].rank = cards[i].rank}) = n } })

TwinHands_is_flush(cards) ==
    Cardinality({ cards[i].suit : i \in DOMAIN cards }) = 1

\* values == list(range(values[0], values[0] + 5)), or the wheel
TwinHands_is_straight_of(values) ==
    \/ values = [i \in 1..5 |-> values[1] + i - 1]
    \/ values = <<2, 3, 4, 5, 14>>

TwinHands_is_straight(cards) ==
    TwinHands_is_straight_of(SortedInts([i \in DOMAIN cards |->
                                             get_rank_value(cards[i])]))

TwinHands_is_royal_flush(cards) ==
    IF ~ TwinHands_is_flush(cards) THEN FALSE
    ELSE { cards[i].rank : i \in DOMAIN cards } = {"T", "J", "Q", "K", "A"}

TwinHands_is_straight_flush(cards) ==
    IF TwinHands_is_royal_flush(cards) THEN FALSE
    ELSE TwinHands_is_flush(cards) /\ TwinHands_is_straight(cards)

TwinHands_is_four_of_a_kind(cards) == 4 \in RankCountValues(cards)

\* sorted(rank_counts.values()) == [2, 3]
TwinHands_is_full_house(cards) ==
    /\ Cardinality({ cards[i].rank : i \in DOMAIN cards }) = 2
    /\ RanksCounted(cards, 2) = 1
    /\ RanksCounted(cards, 3) = 1

TwinHands_is_three_of_a_kind(cards) ==
    3 \in RankCountValues(cards) /\ ~ TwinHands_is_full_house(cards)

TwinHands_is_two_pair(cards) == RanksCounted(cards, 2) = 2

TwinHands_is_one_pair(cards) ==
    2 \in RankCountValues(cards) /\ ~ TwinHands_is_two_pair(cards)

\* the if/elif chains of evaluate_hand by num_cards
TwinHands_hand_type(sorted_cards) ==
    IF Len(sorted_cards) = 5
    THEN IF TwinHands_is_royal_flush(sorted_cards) THEN "Royal Flush"
         ELSE IF TwinHands_is_straight_flush(sorted_cards) THEN "Straight Flush"
         ELSE IF TwinHands_is_four_of_a_kind(sorted_cards) THEN "Four of a Kind"
         ELSE IF TwinHands_is_flush(sorted_cards) THEN "Flush"
         ELSE IF TwinHands_is_straight(sorted_cards) THEN "Straight"
         ELSE IF TwinHands_is_full_house(sorted_cards) THEN "Full House"
         ELSE IF TwinHands_is_three_of_a_kind(sorted_cards) THEN "Three of a Kind"
         ELSE IF TwinHands_is_two_pair(sorted_cards) THEN "Two Pair"
         ELSE IF TwinHands_is_one_pair(sorted_cards) THEN "Pair"
         ELSE "High Card"
    ELSE IF Len(sorted_cards) = 4
    THEN IF TwinHands_is_four_of_a_kind(sorted_cards) THEN "Four of a Kind"
         ELSE IF TwinHands_is_three_of_a_kind(sorted_cards) THEN "Three of a Kind"
         ELSE IF TwinHands_is_two_pair(sorted_cards) THEN "Two Pair"
         ELSE IF TwinHands_is_one_pair(sorted_cards) THEN "Pair"
         ELSE "High Card"
    ELSE IF Len(sorted_cards) = 3
    THEN IF TwinHands_is_three_of_a_kind(sorted_cards) THEN "Three of a Kind"
         ELSE IF TwinHands_is_one_pair(sorted_cards) THEN "Pair"
         ELSE "High Card"
    ELSE IF Len(sorted_cards) = 2
    THEN IF TwinHands_is_one_pair(sorted_cards) THEN "Pair"
         ELSE "High Card"
    ELSE "High Card"

\* base_score = TwinHandsConfig.HAND_SCORES[hand_type] and the return
TwinHands_scored(sorted_cards, hand_type) ==
    IF hand_type \notin TwinHands_HAND_SCORES_keys
    THEN [exc |-> "KeyError",
          hand |-> TwinHands_HandResource(<<>>, "", 0, 0)]
    ELSE [exc |-> NoExc,
          hand |-> TwinHands_HandResource(sorted_cards, hand_type,
                       TwinHands_HAND_SCORES(hand_type), 1)]

\* evaluate_hand once the cards are sorted
TwinHands_sorted(sorted_cards) ==
    TwinHands_scored(sorted_cards, TwinHands_hand_type(sorted_cards))

\* PokerEvaluator.evaluate_hand of src/utils
TwinHands_evaluate_hand(cards) ==
    IF Len(cards) < 1 \/ Len(cards) > 5
    THEN [exc |-> NoExc,
          hand |-> TwinHands_HandResource(cards, "Invalid", 0, 1)]
    ELSE IF \E i \in DOMAIN cards : cards[i].rank \notin RANK_VALUES_keys
    THEN [exc |-> "KeyError",
          hand |-> TwinHands_HandResource(<<>>, "", 0, 0)]
    ELSE TwinHands_sorted(SortedByRankDesc(cards))

\* ScoringManager._is_sequential: rank_order, positions 0..13
rank_order ==
    <<"A", "2", "3", "4", "5", "6", "7", "8", "9", "10", "J", "Q", "K", "A">>

\* card_indices for a card of that rank: the positions of the rank in
\* rank_order, ascending
IndicesOf(rank) ==
    SortedInts(SetToSeq({ i - 1 : i \in { i \in DOMAIN rank_order :
                                             rank_order[i] = rank } }))

\* "Check if consecutive"
Consecutive(sorted_indices) ==
    \A i \in 1..(Len(sorted_indices) - 1) :
        sorted_indices[i + 1] - sorted_indices[i] = 1

\* the outcome is [exc, value]; idx_list[0] of an empty list raises
_is_sequential(cards) ==
    IF Len(cards) < 2 THEN [exc |-> NoExc, value |-> FALSE]
    ELSE IF \E i \in DOMAIN cards : IndicesOf(cards[i].rank) = <<>>
    THEN [exc |-> "IndexError", value |-> FALSE]
    ELSE [exc |-> NoExc,
          value |-> Consecutive(SortedInts([i \in DOMAIN cards |->
                                     IndicesOf(cards[i].rank)[1]]))]

_is_royal(cards) ==
    IF Len(cards) # 4 THEN FALSE
    ELSE { cards[i].rank : i \in DOMAIN cards } = {"A", "K", "Q", "J"}

\* max(rank_counts.values())
MaxRankCount(cards) ==
    CHOOSE n \in RankCountValues(cards) : \A m \in RankCountValues(cards) : m <= n

\* the chains of _determine_hand_type after is_flush and is_straight
HandTypeOf(cards, is_flush, is_straight) ==
    IF Len(cards) = 4
    THEN IF MaxRankCount(cards) = 4 THEN "Four of a Kind"
         ELSE IF is_flush /\ is_straight /\ _is_royal(cards) THEN "Royal Flush"
         ELSE IF is_flush /\ is_straight THEN "Straight Flush"
         ELSE IF is_flush THEN "Flush"
         ELSE IF is_straight THEN "Straight"
         ELSE IF RanksCounted(cards, 2) = 2 THEN "Two Pair"
         ELSE IF MaxRankCount(cards) = 2 THEN "Pair"
         ELSE "High Card"
    ELSE IF Len(cards) = 3
    THEN IF MaxRankCount(cards) = 3 THEN "Three of a Kind"
         ELSE IF is_flush /\ is_straight THEN "Straight Flush"
         ELSE IF is_flush THEN "Flush"
         ELSE IF is_straight THEN "Straight"
         ELSE IF MaxRankCount(cards) = 2 THEN "Pair"
         ELSE "High Card"
    ELSE IF Len(cards) = 2
    THEN IF MaxRankCount(cards) = 2 THEN "Pair"
         ELSE IF is_flush THEN "Flush"
         ELSE IF is_straight THEN "Straight"
         ELSE "High Card"
    ELSE "High Card"

\* _determine_hand_type, seq being the outcome of _is_sequential
DeterminedWith(cards, seq) ==
    IF seq.exc # NoExc THEN [exc |-> seq.exc, hand_type |-> ""]
    ELSE [exc |-> NoExc,
          hand_type |-> HandTypeOf(cards,
                            Cardinality({ cards[i].suit : i \in DOMAIN cards }) = 1,
                            seq.value)]

_determine_hand_type(cards) == DeterminedWith(cards, _is_sequential(cards))

\* base_score = self.config.HAND_SCORES.get(hand_type, 0) and the return
Scoring_scored(cards, t) ==
    IF t.exc # NoExc
    THEN [exc |-> t.exc, hand |-> TwinHands_HandResource(<<>>, "", 0, 0)]
    ELSE [exc |-> NoExc,
          hand |-> TwinHands_HandResource(cards, t.hand_type,
                       IF t.hand_type \in TwinHands_HAND_SCORES_keys
                       THEN TwinHands_HAND_SCORES(t.hand_type) ELSE 0,
                       1)]

\* ScoringManager.evaluate_hand
Scoring_evaluate_hand(cards) ==
    IF Len(cards) < 1 \/ Len(cards) > 4
    THEN [exc |-> NoExc,
          hand |-> TwinHands_HandResource(cards, "Invalid", 0, 1)]
    ELSE Scoring_scored(cards, _determine_hand_type(cards))

(***************************************************************************)
(* SpecTHEval: the two evaluate_hand functions applied to lists of         *)
(* distinct cards of a part of the deck CardFactory.create_deck builds     *)
(* (ranks "A", "2".."10", "J", "Q", "K"; suits "hearts", ...).             *)
(***************************************************************************)
MaxHandLen == 6         \* evaluated lists hold 0..MaxHandLen cards

THRanks == <<"A", "2", "3", "4", "5", "9", "10">>

THSuits == <<"hearts", "diamonds", "clubs">>

\* the part of the deck, in create_deck order (for suit: for rank)
THDeck ==
    [i \in 1..(Len(THRanks) * Len(THSuits)) |->
        CardResource(THRanks[((i - 1) % Len(THRanks)) + 1],
                     THSuits[((i - 1) \div Len(THRanks)) + 1])]

\* the lists of k deck positions in ascending order
RECURSIVE THPicks(_)
THPicks(k) ==
    IF k = 0 THEN { <<>> }
    ELSE UNION { { Append(s, i) : i \in { i \in DOMAIN THDeck :
                                              s = <<>> \/ i > s[Len(s)] } } :
                 s \in THPicks(k - 1) }

InitTHEval ==
    /\ ev_cards = <<>>
    /\ InitEvalRest
    /\ InitAIRest
    /\ InitGMRest
    /\ InitGridRest
    /\ InitJokerRest
    /\ InitScoreRest
    /\ InitMCRest
    /\ \E k \in 0..MaxHandLen : \E s \in THPicks(k) :
           th_cards = [i \in DOMAIN s |-> THDeck[s[i]]]
    /\ th_hand = NoTHHand

\* evaluate_hand of `by` has returned e.hand (or raised e.exc)
THReturns(by, e) ==
    th_hand' = [called |-> TRUE, by |-> by, cards |-> th_cards,
                exc |-> e.exc, hand |-> e.hand]

\* what an evaluate_hand call leaves alone
THFrame ==
    /\ UNCHANGED th_cards
    /\ UNCHANGED evalVars
    /\ UNCHANGED jokerVars
    /\ UNCHANGED scoreVars
    /\ UNCHANGED mcVars
    /\ UNCHANGED aiVars
    /\ UNCHANGED gmVars
    /\ UNCHANGED grVars

\* PokerEvaluator.evaluate_hand(cards)
PokerEvaluateHand ==
    /\ THReturns("PokerEvaluator", TwinHands_evaluate_hand(th_cards))
    /\ THFrame

\* ScoringManager(config, state).evaluate_hand(cards)
ScoringEvaluateHand ==
    /\ THReturns("ScoringManager", Scoring_evaluate_hand(th_cards))
    /\ THFrame

NextTHEval == PokerEvaluateHand \/ ScoringEvaluateHand

SpecTHEval == InitTHEval /\ [][NextTHEval]_vars

(***************************************************************************)
(* Twin Hands: TwinHandsConfig, TwinHandsState, DeckResource, CardFactory, *)
(* DeckManager, TokenManager, TradeManager and GameManager.  decks[d + 1]  *)
(* is state.decks[d]; a list index i is a Python index (0-based, negative  *)
(* from the end).                                                          *)
(***************************************************************************)
\* TwinHandsConfig(): the default values
TwinHandsConfig ==
    [num_decks |-> 2, discard_tokens_per_round |-> 3,
     trade_tokens_per_round |-> 2, max_hands_per_deck |-> 2,
     visible_cards_per_deck |-> 7]

DeckResource(draw_pile, discard_pile, visible_cards) ==
    [draw_pile |-> draw_pile, discard_pile |-> discard_pile,
     visible_cards |-> visible_cards]

\* Python None in a place that holds a DeckResource
NoDeck == [none |-> TRUE]

\* CardFactory.create_deck of src/utils: for suit in SUITS: for rank in RANKS
TwinHands_SUITS == <<"hearts", "diamonds", "clubs", "spades">>

TwinHands_RANKS ==
    <<"A", "2", "3", "4", "5", "6", "7", "8", "9", "10", "J", "Q", "K">>

TwinHands_create_deck ==
    [i \in 1..52 |-> CardResource(TwinHands_RANKS[((i - 1) % 13) + 1],
                                  TwinHands_SUITS[((i - 1) \div 13) + 1])]

\* random.shuffle(x): for i in reversed(range(1, len(x))): j = randbelow(i + 1),
\* x[i], x[j] = x[j], x[i]; here from position i (0-based) downwards
RECURSIVE ShuffleFrom(_, _, _)
ShuffleFrom(list, x, i) ==
    IF i < 1 THEN [list |-> list, rng |-> x]
    ELSE ShuffleFrom([list EXCEPT ![i + 1] = list[(RandNext(x) % (i + 1)) + 1],
                                  ![(RandNext(x) % (i + 1)) + 1] = list[i + 1]],
                     RandNext(x), i - 1)

random_shuffle(list, x) == ShuffleFrom(list, x, Len(list) - 1)

\* CardFactory.create_shuffled_deck
create_shuffled_deck(x) == random_shuffle(TwinHands_create_deck, x)

\* list[a:b] for 0 <= a <= b
PySlice(list, a, b) == SubSeq(list, a + 1, PyMin(b, Len(list)))

\* the DeckResource split_deck builds for deck i of full_deck
SplitOne(config, full_deck, i) ==
    DeckResource(
        PySlice(PySlice(full_deck, i * (52 \div config.num_decks),
                        i * (52 \div config.num_decks) + 52 \div config.num_decks),
                config.visible_cards_per_deck, 52),
        <<>>,
        PySlice(PySlice(full_deck, i * (52 \div config.num_decks),
                        i * (52 \div config.num_decks) + 52 \div config.num_decks),
                0, config.visible_cards_per_deck))

\* split_deck once full_deck is created: sh is the shuffled deck with the
\* generator afterwards
SplitShuffled(config, sh) ==
    [decks |-> [d \in 1..config.num_decks |-> SplitOne(config, sh.list, d - 1)],
     rng |-> sh.rng]

\* DeckManager.split_deck: the decks and the generator afterwards
split_deck(config, x) == SplitShuffled(config, create_shuffled_deck(x))

\* shuffle_discard_into_draw once the discard pile is shuffled
DiscardShuffled(deck, sh) ==
    [deck |-> DeckResource(sh.list, <<>>, deck.visible_cards), rng |-> sh.rng]

\* DeckResource.shuffle_discard_into_draw
shuffle_discard_into_draw(deck, x) ==
    IF deck.discard_pile = <<>> THEN [deck |-> deck, rng |-> x]
    ELSE DiscardShuffled(deck, random_shuffle(deck.discard_pile, x))

\* DeckManager.draw_cards on one deck, with `count` iterations to go
RECURSIVE draw_cards(_, _, _)
\* an iteration after the "if not deck.draw_pile" step left s
DrawOne(s, count) ==
    IF s.deck.draw_pile # <<>>
    THEN draw_cards(DeckResource(Tail(s.deck.draw_pile), s.deck.discard_pile,
                                 Append(s.deck.visible_cards,
                                        Head(s.deck.draw_pile))),
                    s.rng, count - 1)
    ELSE draw_cards(s.deck, s.rng, count - 1)

draw_cards(deck, x, count) ==
    IF count <= 0 THEN [deck |-> deck, rng |-> x]
    ELSE DrawOne(IF deck.draw_pile = <<>>
                 THEN shuffle_discard_into_draw(deck, x)
                 ELSE [deck |-> deck, rng |-> x],
                 count)

\* DeckManager.discard_to_pile
discard_to_pile(deck, cards) ==
    DeckResource(deck.draw_pile, deck.discard_pile \o cards, deck.visible_cards)

\* list[i] does not raise IndexError
PyIndexOK(list, i) == -Len(list) <= i /\ i < Len(list)

\* list[i], for such an i
PyAt(list, i) == IF i >= 0 THEN list[i + 1] ELSE list[Len(list) + i + 1]

\* the list after list.pop(i), for such an i
PyPopped(list, i) ==
    IF i >= 0 THEN SubSeq(list, 1, i) \o SubSeq(list, i + 2, Len(list))
    ELSE SubSeq(list, 1, Len(list) + i) \o SubSeq(list, Len(list) + i + 2, Len(list))

\* for i in sorted(card_indices, reverse=True): out.append(visible.pop(i)),
\* from index number k of `order` on
RECURSIVE PopLoop(_, _, _, _)
PopLoop(visible, order, k, out) ==
    IF k > Len(order) THEN [exc |-> NoExc, visible |-> visible, out |-> out]
    ELSE IF ~ PyIndexOK(visible, order[k])
         THEN [exc |-> "IndexError", visible |-> visible, out |-> out]
         ELSE PopLoop(PyPopped(visible, order[k]), order, k + 1,
                      Append(out, PyAt(visible, order[k])))

\* a deck may always play
can_play_hand_always(config, played, deck_index) == TRUE

\* TokenManager.can_play_hand
can_play_hand(config, played, deck_index) ==
    ~ (played[deck_index + 1] >= config.max_hands_per_deck)

\* TokenManager.record_hand_played: the counters afterwards
record_hand_played(config, played, deck_index) ==
    IF ~ can_play_hand(config, played, deck_index) THEN played
    ELSE [played EXCEPT ![deck_index + 1] = @ + 1]

\* TokenManager.can_discard
can_discard(tokens) == tokens > 0

\* TokenManager.spend_discard_token: the tokens afterwards
spend_discard_token(tokens) == IF ~ can_discard(tokens) THEN tokens ELSE tokens - 1

(***************************************************************************)
(* The GameManager operations on S, the record of what they read and       *)
(* write: [decks, played, discard_tokens, trade_tokens, hands, rng].  An   *)
(* outcome is [exc, success, S]: the call raised exc, or returned a dict   *)
(* with that "success".                                                    *)
(***************************************************************************)
GMReturn(S, success) == [exc |-> NoExc, success |-> success, S |-> S]

GMRaise(S, exc) == [exc |-> exc, success |-> FALSE, S |-> S]

\* [deck.visible_cards[i] for i in card_indices], when no index is invalid
CardsAt(visible, card_indices) ==
    [k \in DOMAIN card_indices |-> PyAt(visible, card_indices[k])]

\* play_hand from "Draw replacement cards" on, dr being the outcome of
\* draw_cards
PlayDrawn(S, deck_index, hand, dr) ==
    GMReturn([S EXCEPT !.decks[deck_index + 1] = dr.deck, !.rng = dr.rng,
                       !.hands = Append(@, hand)],
             TRUE)

\* play_hand after the pop loop with outcome p
PlayPopped(S, deck_index, card_indices, hand, p) ==
    IF p.exc # NoExc
    THEN GMRaise([S EXCEPT !.decks[deck_index + 1].visible_cards = p.visible],
                 p.exc)
    ELSE PlayDrawn(S, deck_index, hand,
             draw_cards(discard_to_pile(
                            [S.decks[deck_index + 1] EXCEPT
                                 !.visible_cards = p.visible],
                            p.out),
                        S.rng, Len(card_indices)))

\* play_hand after scoring_manager.evaluate_hand with outcome e
PlayScored(S, config, deck_index, card_indices, e) ==
    IF e.exc # NoExc THEN GMRaise(S, e.exc)
    ELSE PlayPopped([S EXCEPT !.played =
                         record_hand_played(config, S.played, deck_index)],
                    deck_index, card_indices, e.hand,
                    PopLoop(S.decks[deck_index + 1].visible_cards,
                            Reverse(SortedInts(card_indices)), 1, <<>>))

\* GameManager.play_hand
play_hand(S, config, deck_index, card_indices) ==
    IF ~ can_play_hand(config, S.played, deck_index) THEN GMReturn(S, FALSE)
    ELSE IF S.decks[deck_index + 1] = NoDeck
    THEN IF card_indices # <<>> THEN GMRaise(S, "AttributeError")
         ELSE GMRaise([S EXCEPT !.played =
                           record_hand_played(config, S.played, deck_index)],
                      "AttributeError")
    ELSE IF \E k \in DOMAIN card_indices :
                ~ PyIndexOK(S.decks[deck_index + 1].visible_cards, card_indices[k])
    THEN GMReturn(S, FALSE)
    ELSE PlayScored(S, config, deck_index, card_indices,
             Scoring_evaluate_hand(CardsAt(S.decks[deck_index + 1].visible_cards,
                                           card_indices)))

\* discard_cards from "Draw replacement cards" on
DiscardDrawn(S, deck_index, dr) ==
    GMReturn([S EXCEPT !.decks[deck_index + 1] = dr.deck, !.rng = dr.rng,
                       !.discard_tokens = spend_discard_token(@)],
             TRUE)

\* discard_cards after the pop loop with outcome p
DiscardPopped(S, deck_index, card_indices, p) ==
    IF p.exc # NoExc
    THEN GMRaise([S EXCEPT !.decks[deck_index + 1].visible_cards = p.visible],
                 p.exc)
    ELSE DiscardDrawn(S, deck_index,
             draw_cards(discard_to_pile(
                            [S.decks[deck_index + 1] EXCEPT
                                 !.visible_cards = p.visible],
                            p.out),
                        S.rng, Len(card_indices)))

\* GameManager.discard_cards
discard_cards(S, deck_index, card_indices) ==
    IF ~ can_discard(S.discard_tokens) THEN GMReturn(S, FALSE)
    ELSE IF Len(card_indices) < 1 \/ Len(card_indices) > 5
    THEN GMReturn(S, FALSE)
    ELSE IF S.decks[deck_index + 1] = NoDeck THEN GMRaise(S, "AttributeError")
    ELSE IF \E k \in DOMAIN card_indices :
                ~ PyIndexOK(S.decks[deck_index + 1].visible_cards, card_indices[k])
    THEN GMReturn(S, FALSE)
    ELSE DiscardPopped(S, deck_index, card_indices,
             PopLoop(S.decks[deck_index + 1].visible_cards,
                     Reverse(SortedInts(card_indices)), 1, <<>>))

\* a trade never refuses for want of tokens
TradeManager_can_trade_no_tokens(S, source_deck, target_deck) ==
    IF source_deck = target_deck THEN [exc |-> NoExc, value |-> FALSE]
    ELSE IF S.decks[source_deck + 1] = NoDeck
    THEN [exc |-> "AttributeError", value |-> FALSE]
    ELSE IF Len(S.decks[source_deck + 1].visible_cards) = 0
    THEN [exc |-> NoExc, value |-> FALSE]
    ELSE [exc |-> NoExc, value |-> TRUE]

\* TradeManager.can_trade: the outcome is [exc, value]
TradeManager_can_trade(S, source_deck, target_deck) ==
    IF S.trade_tokens <= 0 THEN [exc |-> NoExc, value |-> FALSE]
    ELSE IF source_deck = target_deck THEN [exc |-> NoExc, value |-> FALSE]
    ELSE IF S.decks[source_deck + 1] = NoDeck
    THEN [exc |-> "AttributeError", value |-> FALSE]
    ELSE IF Len(S.decks[source_deck + 1].visible_cards) = 0
    THEN [exc |-> NoExc, value |-> FALSE]
    ELSE [exc |-> NoExc, value |-> TRUE]

\* trade_card from the redraw on, dr being the outcome of draw_cards on the
\* source deck
TradeDrawn(S, source_deck, dr) ==
    GMReturn([S EXCEPT !.decks[source_deck + 1] = dr.deck, !.rng = dr.rng,
                       !.trade_tokens = @ - 1],
             TRUE)

\* trade_card from "Remove card from source" on
TradeMoved(S, source_deck, target_deck, card_index) ==
    IF S.decks[target_deck + 1] = NoDeck
    THEN GMRaise([S EXCEPT !.decks[source_deck + 1].visible_cards =
                      PyPopped(@, card_index)],
                 "AttributeError")
    ELSE TradeDrawn([S EXCEPT !.decks[target_deck + 1].visible_cards =
                         Append(@, PyAt(S.decks[source_deck + 1].visible_cards,
                                        card_index))],
                    source_deck,
                    draw_cards([S.decks[source_deck + 1] EXCEPT
                                    !.visible_cards = PyPopped(@, card_index)],
                               S.rng, 1))

\* TradeManager.trade_card after can_trade with outcome ok
TradeChecked(S, source_deck, target_deck, card_index, ok) ==
    IF ok.exc # NoExc THEN GMRaise(S, ok.exc)
    ELSE IF ~ ok.value THEN GMReturn(S, FALSE)
    ELSE IF \/ card_index < 0
            \/ card_index >= Len(S.decks[source_deck + 1].visible_cards)
    THEN GMReturn(S, FALSE)
    ELSE TradeMoved(S, source_deck, target_deck, card_index)

\* TradeManager.trade_card
TradeManager_trade_card(S, source_deck, target_deck, card_index) ==
    TradeChecked(S, source_deck, target_deck, card_index,
                 TradeManager_can_trade(S, source_deck, target_deck))

\* GameManager.trade_card after its own can_trade with outcome ok
GMTradeChecked(S, source_deck, target_deck, card_index, ok) ==
    IF ok.exc # NoExc THEN GMRaise(S, ok.exc)
    ELSE IF ~ ok.value THEN GMReturn(S, FALSE)
    ELSE TradeManager_trade_card(S, source_deck, target_deck, card_index)

\* GameManager.trade_card
trade_card(S, source_deck, target_deck, card_index) ==
    GMTradeChecked(S, source_deck, target_deck, card_index,
                   TradeManager_can_trade(S, source_deck, target_deck))

(***************************************************************************)
(* SpecGame: a GameManager built on the default TwinHandsConfig;           *)
(* start_game, play_hand, discard_cards and trade_card in any order.       *)
(***************************************************************************)
MaxStarts == 1          \* start_game calls per behaviour

MaxGMCalls == 3         \* play_hand, discard_cards, trade_card calls

\* the deck_index, source_deck and target_deck arguments
GMDecks == 0..(TwinHandsConfig.num_decks - 1)

\* the card_indices arguments: two cards; the last card twice (the second
\* pop fails on seven cards, the list is invalid on fewer); the eighth card;
\* the first card twice; no card; five cards
GMIndexLists ==
    { <<0, 2>>, <<6, 6>>, <<7>>, <<0, 0>>, <<>>, <<0, 1, 2, 3, 4>> }

\* the card_index arguments of trade_card
GMIndexes == { -1, 0, 7 }

\* the state after GameManager(TwinHandsConfig())
InitGame ==
    /\ ev_cards = <<>>
    /\ InitEvalRest
    /\ InitAIRest
    /\ InitTHEvalRest
    /\ InitJokerRest
    /\ InitMCRest
    /\ grid = EmptyGrid
    /\ frozen_cells = <<>>
    /\ rng \in 0..MaxSeed
    /\ lines_scored_per_spin = 3
    /\ joker_manager = "None"
    /\ sc_deals = 0
    /\ sc_calls = 0
    /\ sc_result = NoScore
    /\ th_config = TwinHandsConfig
    /\ decks = [d \in 1..TwinHandsConfig.num_decks |-> NoDeck]
    /\ hands_played_per_deck = [d \in 1..TwinHandsConfig.num_decks |-> 0]
    /\ discard_tokens = TwinHandsConfig.discard_tokens_per_round
    /\ trade_tokens = TwinHandsConfig.trade_tokens_per_round
    /\ _hands_played = <<>>
    /\ gm_starts = 0
    /\ gm_calls = 0
    /\ gm_last = NoGMCall
    /\ InitGridRest

\* what the GameManager operations read and write
GMState ==
    [decks |-> decks, played |-> hands_played_per_deck,
     discard_tokens |-> discard_tokens, trade_tokens |-> trade_tokens,
     hands |-> _hands_played, rng |-> rng]

\* what the GameManager operations leave alone
GMFrame ==
    /\ UNCHANGED th_config
    /\ UNCHANGED <<grid, frozen_cells, lines_scored_per_spin, joker_manager,
                   sc_deals, sc_calls, sc_result>>
    /\ UNCHANGED evalVars
    /\ UNCHANGED jokerVars
    /\ UNCHANGED mcVars
    /\ UNCHANGED aiVars
    /\ UNCHANGED thEvalVars
    /\ UNCHANGED grVars

\* the call `call` has ended with outcome r
GMReturns(call, r) ==
    /\ decks' = r.S.decks
    /\ hands_played_per_deck' = r.S.played
    /\ discard_tokens' = r.S.discard_tokens
    /\ trade_tokens' = r.S.trade_tokens
    /\ _hands_played' = r.S.hands
    /\ rng' = r.S.rng
    /\ gm_last' = [called |-> TRUE, call |-> call, exc |-> r.exc,
                   success |-> r.success]

\* start_game has dealt sp.decks
StartReturns(sp) ==
    /\ decks' = sp.decks
    /\ rng' = sp.rng

\* game.start_game()
StartGame ==
    /\ gm_starts < MaxStarts
    /\ gm_starts' = gm_starts + 1
    /\ StartReturns(split_deck(th_config, rng))
    /\ UNCHANGED <<hands_played_per_deck, discard_tokens, trade_tokens,
                   _hands_played, gm_calls, gm_last>>
    /\ GMFrame

\* game.play_hand(deck_index, card_indices)
PlayHand ==
    \E deck_index \in GMDecks : \E card_indices \in GMIndexLists :
        /\ gm_calls < MaxGMCalls
        /\ gm_calls' = gm_calls + 1
        /\ GMReturns([op |-> "play_hand", deck_index |-> deck_index,
                      card_indices |-> card_indices],
                     play_hand(GMState, th_config, deck_index, card_indices))
        /\ UNCHANGED gm_starts
        /\ GMFrame

\* game.discard_cards(deck_index, card_indices)
DiscardCards ==
    \E deck_index \in GMDecks : \E card_indices \in GMIndexLists :
        /\ gm_calls < MaxGMCalls
        /\ gm_calls' = gm_calls + 1
        /\ GMReturns([op |-> "discard_cards", deck_index |-> deck_index,
                      card_indices |-> card_indices],
                     discard_cards(GMState, deck_index, card_indices))
        /\ UNCHANGED gm_starts
        /\ GMFrame

\* game.trade_card(source_deck, target_deck, card_index)
TradeCard ==
    \E source_deck \in GMDecks : \E target_deck \in GMDecks :
    \E card_index \in GMIndexes :
        /\ gm_calls < MaxGMCalls
        /\ gm_calls' = gm_calls + 1
        /\ GMReturns([op |-> "trade_card", source_deck |-> source_deck,
                      target_deck |-> target_deck, card_index |-> card_index],
                     trade_card(GMState, source_deck, target_deck, card_index))
        /\ UNCHANGED gm_starts
        /\ GMFrame

NextGame == StartGame \/ PlayHand \/ DiscardCards \/ TradeCard

SpecGame == InitGame /\ [][NextGame]_vars

(***************************************************************************)
(* Poker grid: GameConfigResource, the round operations of                 *)
(* GameStateResource, GridManager, RerollManager and GameManager.  An      *)
(* outcome is a record [exc, value, grid, frozen, ...]: the call raised    *)
(* exc or returned value, and left the grid and frozen_cells given.        *)
(***************************************************************************)
\* the fields of GameConfigResource the round operations read
GameConfigResource(enable_freeze, auto_freeze_highest_pair) ==
    [enable_freeze |-> enable_freeze,
     auto_freeze_highest_pair |-> auto_freeze_highest_pair,
     max_spins |-> 5, reroll_tokens_per_quota |-> 8,
     cost_per_column_reroll |-> 1]

\* reroll_tokens_left of a GameStateResource built without that argument
DefaultRerollTokens == 12

\* grid[row][col] does not raise IndexError
CellOK(row, col) ==
    /\ -grid_rows <= row /\ row < grid_rows
    /\ -grid_cols <= col /\ col < grid_cols

\* the row and the column grid[row][col] reads, for such a row and col
CellRow(row) == IF row >= 0 THEN row ELSE grid_rows + row

CellCol(col) == IF col >= 0 THEN col ELSE grid_cols + col

\* (row, col) in self.frozen_cells
Listed(frozen, row, col) == \E i \in DOMAIN frozen : frozen[i] = <<row, col>>

\* GameStateResource.can_freeze_more
can_freeze_more(frozen) == Len(frozen) < max_freezes

GridOutcome(exc, value, g, frozen) ==
    [exc |-> exc, value |-> value, grid |-> g, frozen |-> frozen]

\* a freeze is accepted whatever is frozen already
freeze_cell_unchecked(g, frozen, row, col) ==
    IF ~ CellOK(row, col) THEN GridOutcome("IndexError", FALSE, g, frozen)
    ELSE GridOutcome(NoExc, TRUE,
             [g EXCEPT ![CellRow(row)][CellCol(col)].is_frozen = TRUE],
             Append(frozen, <<row, col>>))

\* GameStateResource.freeze_cell
freeze_cell(g, frozen, row, col) ==
    IF Listed(frozen, row, col) THEN GridOutcome(NoExc, FALSE, g, frozen)
    ELSE IF ~ can_freeze_more(frozen) THEN GridOutcome(NoExc, FALSE, g, frozen)
    ELSE IF ~ CellOK(row, col) THEN GridOutcome("IndexError", FALSE, g, frozen)
    ELSE GridOutcome(NoExc, TRUE,
             [g EXCEPT ![CellRow(row)][CellCol(col)].is_frozen = TRUE],
             Append(frozen, <<row, col>>))

\* list.remove(x) for an x in the list: the first occurrence goes
RECURSIVE ListRemove(_, _)
ListRemove(list, x) ==
    IF list = <<>> THEN <<>>
    ELSE IF Head(list) = x THEN Tail(list)
    ELSE <<Head(list)>> \o ListRemove(Tail(list), x)

\* GameStateResource.unfreeze_cell
unfreeze_cell(g, frozen, row, col) ==
    IF ~ Listed(frozen, row, col) THEN GridOutcome(NoExc, FALSE, g, frozen)
    ELSE IF ~ CellOK(row, col) THEN GridOutcome("IndexError", FALSE, g, frozen)
    ELSE GridOutcome(NoExc, TRUE,
             [g EXCEPT ![CellRow(row)][CellCol(col)].is_frozen = FALSE],
             ListRemove(frozen, <<row, col>>))

\* GameStateResource.unfreeze_all, the cells listed being cells of the grid
unfreeze_all(g, frozen) ==
    GridOutcome(NoExc, "None",
        [r \in 0..(grid_rows - 1) |-> [c \in 0..(grid_cols - 1) |->
            IF \E i \in DOMAIN frozen :
                   CellRow(frozen[i][1]) = r /\ CellCol(frozen[i][2]) = c
            THEN GridCellResource(g[r][c].card, FALSE)
            ELSE g[r][c]]],
        <<>>)

\* the loop "for row in self.grid: for cell in row: cell.unfreeze()" of
\* reset_round
UnfrozenGrid(g) ==
    [r \in 0..(grid_rows - 1) |-> [c \in 0..(grid_cols - 1) |->
        GridCellResource(g[r][c].card, FALSE)]]

\* toggle_freeze on a frozen cell, u being the outcome of unfreeze_cell
ToggleUnfrozen(u) == GridOutcome(u.exc, TRUE, u.grid, u.frozen)

\* GameManager.toggle_freeze: value is the first component of the tuple
toggle_freeze(config, g, frozen, row, col) ==
    IF ~ config.enable_freeze THEN GridOutcome(NoExc, FALSE, g, frozen)
    ELSE IF ~ (0 <= row /\ row < grid_rows /\ 0 <= col /\ col < grid_cols)
    THEN GridOutcome(NoExc, FALSE, g, frozen)
    ELSE IF g[row][col].is_frozen
    THEN ToggleUnfrozen(unfreeze_cell(g, frozen, row, col))
    ELSE freeze_cell(g, frozen, row, col)

\* GridManager._find_best_aligned_pair: aligned_pairs is filled in the order
\* of the loops and the sort by rank value is stable, so aligned_pairs[0] is
\* the first pair of the highest value, the pair the AI managers' loop keeps
Grid_find_best_aligned_pair(all_cards) == _find_best_aligned_pair(all_cards)

\* GridManager._find_best_suited_cards: best_value starts at 0 and every
\* rank value is positive, so the loop keeps what the AI managers' loop keeps
_find_best_suited_cards(all_cards) == _find_best_suited(all_cards)

\* "for row, col in cells: self.state.freeze_cell(row, col)" from cell
\* number k on; o is the outcome so far
RECURSIVE FreezeEach(_, _, _)
FreezeEach(cells, k, o) ==
    IF k > Len(cells) \/ o.exc # NoExc
    THEN GridOutcome(o.exc, "None", o.grid, o.frozen)
    ELSE FreezeEach(cells, k + 1,
                    freeze_cell(o.grid, o.frozen, cells[k][1], cells[k][2]))

\* auto_freeze_highest_pair once best_pair is found
AutoFreezeWith(g, frozen, all_cards, best_pair) ==
    IF best_pair # <<>>
    THEN FreezeEach(best_pair, 1, GridOutcome(NoExc, "None", g, frozen))
    ELSE FreezeEach(_find_best_suited_cards(all_cards), 1,
                    GridOutcome(NoExc, "None", g, frozen))

\* auto_freeze_highest_pair once all_cards is collected
AutoFreezeOn(g, frozen, all_cards) ==
    AutoFreezeWith(g, frozen, all_cards, Grid_find_best_aligned_pair(all_cards))

\* GridManager.auto_freeze_highest_pair
auto_freeze_highest_pair(g, frozen) == AutoFreezeOn(g, frozen, GatherCards(g, 0))

\* RerollManager._reroll_column from row number row on
RECURSIVE RerollFrom(_, _, _, _)
RerollFrom(g, x, col, row) ==
    IF row >= grid_rows THEN [grid |-> g, rng |-> x]
    ELSE IF ~ g[row][col].is_frozen
    THEN RerollFrom([g EXCEPT ![row][col].card = draw_random(x, create_deck).card],
                    draw_random(x, create_deck).rng, col, row + 1)
    ELSE RerollFrom(g, x, col, row + 1)

_reroll_column(g, x, col) == RerollFrom(g, x, col, 0)

\* "for col in column_indices: self._reroll_column(col)" from index k on, d
\* being the grid and the generator so far
RECURSIVE RerollEach(_, _, _)
RerollEach(column_indices, k, d) ==
    IF k > Len(column_indices) THEN d
    ELSE RerollEach(column_indices, k + 1,
                    _reroll_column(d.grid, d.rng, column_indices[k]))

\* the check always passes
can_reroll_columns_always(config, tokens, column_indices) == TRUE

\* RerollManager.can_reroll_columns: the first component of the tuple
can_reroll_columns(config, tokens, column_indices) ==
    IF column_indices = <<>> THEN FALSE
    ELSE IF \E k \in DOMAIN column_indices :
                ~ (0 <= column_indices[k] /\ column_indices[k] < grid_cols)
    THEN FALSE
    ELSE IF tokens < Len(column_indices) * config.cost_per_column_reroll
    THEN FALSE
    ELSE TRUE

\* GameStateResource.spend_reroll_tokens: [value, tokens]
spend_reroll_tokens(tokens, amount) ==
    IF tokens >= amount THEN [value |-> TRUE, tokens |-> tokens - amount]
    ELSE [value |-> FALSE, tokens |-> tokens]

RerollOutcome(value, g, x, tokens) ==
    [value |-> value, grid |-> g, rng |-> x, tokens |-> tokens]

\* reroll_columns once the columns are redrawn into d
RerollDone(tokens, d) == RerollOutcome(TRUE, d.grid, d.rng, tokens)

\* reroll_columns once spend_reroll_tokens has returned sp
RerollSpent(g, x, tokens, column_indices, sp) ==
    IF ~ sp.value THEN RerollOutcome(FALSE, g, x, tokens)
    ELSE RerollDone(sp.tokens, RerollEach(column_indices, 1, [grid |-> g, rng |-> x]))

\* RerollManager.reroll_columns: value is the first component of the tuple
reroll_columns(config, g, x, tokens, column_indices) ==
    IF ~ can_reroll_columns(config, tokens, column_indices)
    THEN RerollOutcome(FALSE, g, x, tokens)
    ELSE RerollSpent(g, x, tokens, column_indices,
             spend_reroll_tokens(tokens,
                 Len(column_indices) * config.cost_per_column_reroll))

\* play_spin once deal_grid has left d
SpinDealt(d) == [value |-> TRUE, grid |-> d.grid, rng |-> d.rng]

\* GameManager.play_spin
play_spin(left, g, x) ==
    IF left <= 0 THEN [value |-> FALSE, grid |-> g, rng |-> x]
    ELSE SpinDealt(deal_grid(g, x))

\* start_new_round from the auto-freeze on, a being its outcome
StartFrozen(x, a) == [exc |-> a.exc, grid |-> a.grid, frozen |-> a.frozen, rng |-> x]

\* start_new_round once deal_grid has left d
StartDealt(config, d) ==
    IF config.enable_freeze /\ config.auto_freeze_highest_pair
    THEN StartFrozen(d.rng, auto_freeze_highest_pair(d.grid, <<>>))
    ELSE [exc |-> NoExc, grid |-> d.grid, frozen |-> <<>>, rng |-> d.rng]

\* GameManager.start_new_round: the grid, frozen_cells and generator it leaves
\* (reset_round has emptied frozen_cells and unfrozen every cell)
start_new_round(config, g, x) == StartDealt(config, deal_grid(UnfrozenGrid(g), x))

(***************************************************************************)
(* The poker-grid GameManager driven call by call.  SpecFreeze: the freeze *)
(* operations and start_new_round.  SpecReroll: freezes, deals, spins and  *)
(* column rerolls.  SpecSpin: rounds, spins and spin completions.          *)
(***************************************************************************)
MaxGridCalls == 4       \* calls per behaviour, complete_spin apart

MaxSpinsTaken == 7      \* complete_spin calls per round

\* the (row, col) arguments: three cells of the grid and one outside it
GridCells == { <<0, 0>>, <<0, 1>>, <<1, 0>>, <<5, 0>> }

\* the column_indices arguments
ColumnLists == { <<>>, <<0>>, <<0, 5>>, <<0, 1, 2, 3, 4>> }

\* the state after GameManager(config), the auto-freeze settings given
InitGridWith(enable_freeze, auto_freeze) ==
    /\ ev_cards = <<>>
    /\ InitEvalRest
    /\ InitAIRest
    /\ InitTHEvalRest
    /\ InitGMRest
    /\ InitJokerRest
    /\ InitMCRest
    /\ grid = EmptyGrid
    /\ frozen_cells = <<>>
    /\ rng \in 0..MaxSeed
    /\ lines_scored_per_spin = 3
    /\ joker_manager = "None"
    /\ sc_deals = 0
    /\ sc_calls = 0
    /\ sc_result = NoScore
    /\ gr_config = GameConfigResource(enable_freeze, auto_freeze)
    /\ spins_left = gr_config.max_spins
    /\ spins_taken = 0
    /\ reroll_tokens_left = DefaultRerollTokens
    /\ current_round = 0
    /\ gr_calls = 0
    /\ gr_last = NoGridCall

\* GameConfigResource(enable_freeze=..., auto_freeze_highest_pair=...)
InitFreeze ==
    \E enable_freeze \in BOOLEAN : \E auto_freeze \in BOOLEAN :
        InitGridWith(enable_freeze, auto_freeze)

\* GameConfigResource()
InitReroll == InitGridWith(FALSE, TRUE)

InitSpin == InitGridWith(FALSE, TRUE)

\* what the round operations leave alone
GridFrame ==
    /\ UNCHANGED gr_config
    /\ UNCHANGED <<lines_scored_per_spin, joker_manager, sc_deals, sc_calls,
                   sc_result>>
    /\ UNCHANGED evalVars
    /\ UNCHANGED jokerVars
    /\ UNCHANGED mcVars
    /\ UNCHANGED aiVars
    /\ UNCHANGED thEvalVars
    /\ UNCHANGED gmVars

\* a freeze operation `op` on `args` has ended with outcome o
FreezeReturns(op, args, o) ==
    /\ grid' = o.grid
    /\ frozen_cells' = o.frozen
    /\ gr_last' = [called |-> TRUE, op |-> op, args |-> args, exc |-> o.exc,
                   value |-> o.value]

\* state.freeze_cell(row, col)
GridFreezeCell ==
    \E cell \in GridCells :
        /\ gr_calls < MaxGridCalls
        /\ gr_calls' = gr_calls + 1
        /\ FreezeReturns("freeze_cell", cell,
                         freeze_cell(grid, frozen_cells, cell[1], cell[2]))
        /\ UNCHANGED <<rng, spins_left, spins_taken, reroll_tokens_left,
                       current_round>>
        /\ GridFrame

\* state.unfreeze_cell(row, col)
UnfreezeCell ==
    \E cell \in GridCells :
        /\ gr_calls < MaxGridCalls
        /\ gr_calls' = gr_calls + 1
        /\ FreezeReturns("unfreeze_cell", cell,
                         unfreeze_cell(grid, frozen_cells, cell[1], cell[2]))
        /\ UNCHANGED <<rng, spins_left, spins_taken, reroll_tokens_left,
                       current_round>>
        /\ GridFrame

\* state.unfreeze_all()
UnfreezeAll ==
    /\ gr_calls < MaxGridCalls
    /\ gr_calls' = gr_calls + 1
    /\ FreezeReturns("unfreeze_all", <<>>, unfreeze_all(grid, frozen_cells))
    /\ UNCHANGED <<rng, spins_left, spins_taken, reroll_tokens_left,
                   current_round>>
    /\ GridFrame

\* game.toggle_freeze(row, col)
ToggleFreeze ==
    \E cell \in GridCells :
        /\ gr_calls < MaxGridCalls
        /\ gr_calls' = gr_calls + 1
        /\ FreezeReturns("toggle_freeze", cell,
               toggle_freeze(gr_config, grid, frozen_cells, cell[1], cell[2]))
        /\ UNCHANGED <<rng, spins_left, spins_taken, reroll_tokens_left,
                       current_round>>
        /\ GridFrame

\* grid_manager.auto_freeze_highest_pair()
AutoFreezeHighestPair ==
    /\ gr_calls < MaxGridCalls
    /\ gr_calls' = gr_calls + 1
    /\ FreezeReturns("auto_freeze_highest_pair", <<>>,
                     auto_freeze_highest_pair(grid, frozen_cells))
    /\ UNCHANGED <<rng, spins_left, spins_taken, reroll_tokens_left,
                   current_round>>
    /\ GridFrame

\* start_new_round has left st
StartRoundReturns(st) ==
    /\ grid' = st.grid
    /\ frozen_cells' = st.frozen
    /\ rng' = st.rng
    /\ gr_last' = [called |-> TRUE, op |-> "start_new_round", args |-> <<>>,
                   exc |-> st.exc, value |-> "None"]

\* game.start_new_round()
StartNewRound ==
    /\ gr_calls < MaxGridCalls
    /\ gr_calls' = gr_calls + 1
    /\ current_round' = current_round + 1
    /\ spins_left' = gr_config.max_spins
    /\ spins_taken' = 0
    /\ reroll_tokens_left' = gr_config.reroll_tokens_per_quota
    /\ StartRoundReturns(start_new_round(gr_config, grid, rng))
    /\ GridFrame

\* a deal `op` has left d
DealReturns(op, args, value, d) ==
    /\ grid' = d.grid
    /\ rng' = d.rng
    /\ gr_last' = [called |-> TRUE, op |-> op, args |-> args, exc |-> NoExc,
                   value |-> value]

\* game.grid_manager.deal_grid()
GridDealGrid ==
    /\ gr_calls < MaxGridCalls
    /\ gr_calls' = gr_calls + 1
    /\ DealReturns("deal_grid", <<>>, "None", deal_grid(grid, rng))
    /\ UNCHANGED <<frozen_cells, spins_left, spins_taken, reroll_tokens_left,
                   current_round>>
    /\ GridFrame

\* play_spin has returned sp
SpinReturns(sp) == DealReturns("play_spin", <<>>, sp.value, sp)

\* game.play_spin()
PlaySpin ==
    /\ gr_calls < MaxGridCalls
    /\ gr_calls' = gr_calls + 1
    /\ SpinReturns(play_spin(spins_left, grid, rng))
    /\ UNCHANGED <<frozen_cells, spins_left, spins_taken, reroll_tokens_left,
                   current_round>>
    /\ GridFrame

\* reroll_columns has returned rr
RerollReturns(column_indices, rr) ==
    /\ reroll_tokens_left' = rr.tokens
    /\ DealReturns("reroll_columns", column_indices, rr.value, rr)

\* game.reroll_columns(column_indices)
RerollColumns ==
    \E column_indices \in ColumnLists :
        /\ gr_calls < MaxGridCalls
        /\ gr_calls' = gr_calls + 1
        /\ RerollReturns(column_indices,
               reroll_columns(gr_config, grid, rng, reroll_tokens_left,
                              column_indices))
        /\ UNCHANGED <<frozen_cells, spins_left, spins_taken, current_round>>
        /\ GridFrame

\* game.complete_spin()
CompleteSpin ==
    /\ spins_taken < MaxSpinsTaken
    /\ spins_taken' = spins_taken + 1
    /\ spins_left' = spins_left - 1
    /\ gr_last' = [called |-> TRUE, op |-> "complete_spin", args |-> <<>>,
                   exc |-> NoExc, value |-> "None"]
    /\ UNCHANGED <<grid, frozen_cells, rng, reroll_tokens_left, current_round,
                   gr_calls>>
    /\ GridFrame

NextFreeze ==
    \/ GridFreezeCell
    \/ UnfreezeCell
    \/ UnfreezeAll
    \/ ToggleFreeze
    \/ AutoFreezeHighestPair
    \/ StartNewRound

SpecFreeze == InitFreeze /\ [][NextFreeze]_vars

NextReroll ==
    \/ StartNewRound
    \/ GridFreezeCell
    \/ GridDealGrid
    \/ PlaySpin
    \/ RerollColumns

SpecReroll == InitReroll /\ [][NextReroll]_vars

NextSpin == StartNewRound \/ PlaySpin \/ CompleteSpin

SpecSpin == InitSpin /\ [][NextSpin]_vars

(***************************************************************************)
(* SpecSample: estimate_expected_score on a GameConfigResource whose       *)
(* lines_scored_per_spin is 1 or the default 3 (the class has no attribute *)
(* lines_scored_per_hand), after any deals of the grid.                    *)
(***************************************************************************)
InitSample ==
    /\ ev_cards = <<>>
    /\ InitEvalRest
    /\ InitAIRest
    /\ InitTHEvalRest
    /\ InitGMRest
    /\ InitGridRest
    /\ jk_calls = 0
    /\ jk_last = NoCall
    /\ grid = EmptyGrid
    /\ frozen_cells = <<>>
    /\ rng \in 0..MaxSeed
    /\ lines_scored_per_spin \in {1, 3}
    /\ sc_deals = 0
    /\ sc_calls = 0
    /\ sc_result = NoScore
    /\ lines_scored_per_hand = <<>>
    /\ mc_calls = 0
    /\ mc_last = NoEstimate
    /\ mc_prev = NoEstimate
    /\ \/ /\ joker_manager = "None"
          /\ jokers = <<>>
          /\ active_jokers = <<>>
       \/ \E names \in MCJokerLists :
          /\ joker_manager = "JokerManager"
          /\ jokers = [i \in DOMAIN names |-> CatalogJoker(names[i])]
          /\ active_jokers = [i \in DOMAIN names |-> i]

NextSample == DealGrid \/ EstimateExpectedScore

SpecSample == InitSample /\ [][NextSample]_vars

(***************************************************************************)
(* C4: hand categories of the 5-card evaluator.                            *)
(***************************************************************************)
C4Count(cards, r) == Cardinality({i \in DOMAIN cards : cards[i].rank = r})

C4Suited(cards) == \A i, j \in DOMAIN cards : cards[i].suit = cards[j].suit

C4Values(cards) == {RANK_VALUES(cards[i].rank) : i \in DOMAIN cards}

C4Run(cards) ==
    /\ Cardinality(C4Values(cards)) = 5
    /\ \/ \E lo \in 2..10 : C4Values(cards) = lo..(lo + 4)
       \/ C4Values(cards) = {14, 2, 3, 4, 5}

C4Order ==
    <<"Five of a Kind", "Royal Flush", "Straight Flush", "Four of a Kind",
      "Full House", "Flush", "Straight", "Three of a Kind", "Two Pair",
      "One Pair", "High Card">>

\* the defining condition of a category
C4Meets(cat, cards) ==
    LET rs == {cards[i].rank : i \in DOMAIN cards}
    IN  CASE cat = "Five of a Kind" -> \E r \in rs : C4Count(cards, r) = 5
          [] cat = "Royal Flush" ->
                C4Suited(cards) /\ C4Values(cards) = 10..14
          [] cat = "Straight Flush" -> C4Suited(cards) /\ C4Run(cards)
          [] cat = "Four of a Kind" -> \E r \in rs : C4Count(cards, r) = 4
          [] cat = "Full House" ->
                \E r, q \in rs : C4Count(cards, r) = 3 /\ C4Count(cards, q) = 2
          [] cat = "Flush" -> C4Suited(cards)
          [] cat = "Straight" -> C4Run(cards)
          [] cat = "Three of a Kind" -> \E r \in rs : C4Count(cards, r) = 3
          [] cat = "Two Pair" ->
                \E r, q \in rs : r # q /\ C4Count(cards, r) = 2
                                       /\ C4Count(cards, q) = 2
          [] cat = "One Pair" -> \E r \in rs : C4Count(cards, r) = 2
          [] cat = "High Card" -> TRUE

C4First(cards) ==
    C4Order[CHOOSE i \in 1..11 :
                /\ C4Meets(C4Order[i], cards)
                /\ \A j \in 1..(i - 1) : ~C4Meets(C4Order[j], cards)]

\* C4: every 5-card hand (duplicates allowed) is given the first category of
\* the order Five of a Kind .. High Card whose defining condition it meets,
\* with chips = HAND_SCORES of that category and mult = 1.
ThmC4 ==
    (ev_done /\ Len(ev_cards) = 5) =>
        /\ ev_hand.hand_type = C4First(ev_cards)
        /\ ev_hand.chips = HAND_SCORES(C4First(ev_cards))
        /\ ev_hand.mult = 1

\* a mixed-suit A,2,3,4,5 has been evaluated (and found to be a Straight)
WitC4 ==
    /\ ev_done
    /\ Len(ev_cards) = 5
    /\ C4Values(ev_cards) = {14, 2, 3, 4, 5}
    /\ ~C4Suited(ev_cards)
    /\ ev_hand.hand_type = "Straight"

(***************************************************************************)
(* C5 - C8: the joker pipeline.                                            *)
(***************************************************************************)
\* the state of the last call's loop after its first i jokers
JkAfter(i) ==
    apply_joker_effects(jk_last.pre, SubSeq(jk_last.ids, 1, i), jk_last.hand,
                        jk_last.cards, jk_last.hand.chips, jk_last.hand.mult)

\* the i-th joker of the last call, as the loop finds it
JkJoker(i) == JkAfter(i - 1).js[jk_last.ids[i]]

\* the loop of the last call got as far as its i-th joker
JkReached(i) == JkAfter(i - 1).exc = NoExc

ParityEven(card) == RANK_VALUES(card.rank) <= 10 /\ RANK_VALUES(card.rank) % 2 = 0

ParityOdd(card) ==
    \/ RANK_VALUES(card.rank) <= 9 /\ RANK_VALUES(card.rank) % 2 = 1
    \/ card.rank = "A"

\* the joker's condition holds for the line (an unknown condition never holds)
ConditionHolds(j, hand, cards) ==
    LET cv == j.condition_value
        ct == j.condition_type
    IN  CASE ct = "" -> TRUE
          [] ct = "hand_type" -> Len(cv) = 1 /\ hand.hand_type = cv[1]
          [] ct = "suit" ->
                Len(cv) = 1 /\ \E i \in DOMAIN cards : cards[i].suit = cv[1]
          [] ct = "rank" ->
                \E i \in DOMAIN cards : \E k \in DOMAIN cv :
                    cv[k] # "|" /\ cards[i].rank = cv[k]
          [] ct = "card_type" ->
                cv = <<"face">> /\ \E i \in DOMAIN cards : IsFace(cards[i])
          [] ct = "rank_parity" ->
                \/ cv = <<"even">> /\ \E i \in DOMAIN cards : ParityEven(cards[i])
                \/ cv = <<"odd">> /\ \E i \in DOMAIN cards : ParityOdd(cards[i])
          [] ct = "card_position" ->
                cv = <<"first_face">> /\ \E i \in DOMAIN cards : IsFace(cards[i])
          [] OTHER -> FALSE

Triggers(j, hand, cards) ==
    \/ j.trigger = "always"
    \/ j.trigger = "on_scored" /\ ConditionHolds(j, hand, cards)

\* a joker the fold rule of C5 speaks of: instant, a whole-number value, and
\* either per-line +m / +c or Xm
C5Covered(j) ==
    /\ j.effect_type = "instant"
    /\ j.bonus_value.kind = "float"
    /\ j.bonus_value.half % 2 = 0
    /\ \/ j.bonus_type \in {"+m", "+c"} /\ j.per_card = "False"
       \/ j.bonus_type = "Xm"

C5Value(j) == j.bonus_value.half \div 2

RECURSIVE C5Fold(_, _, _, _, _)
C5Fold(js, hand, cards, chips, mult) ==
    IF js = <<>> THEN <<chips, mult>>
    ELSE LET j == Head(js)
         IN  IF ~Triggers(j, hand, cards)
             THEN C5Fold(Tail(js), hand, cards, chips, mult)
             ELSE IF j.bonus_type = "+m"
             THEN C5Fold(Tail(js), hand, cards, chips, mult + C5Value(j))
             ELSE IF j.bonus_type = "+c"
             THEN C5Fold(Tail(js), hand, cards, chips + C5Value(j), mult)
             ELSE C5Fold(Tail(js), hand, cards, chips, mult * C5Value(j))

JkList == [i \in DOMAIN jk_last.ids |-> jk_last.pre[jk_last.ids[i]]]

\* C5: the active jokers are folded over (chips, mult) in registration order:
\* a triggered per-line +m joker adds its value to mult, a triggered per-line
\* +c joker adds its value to chips, and every triggered Xm joker multiplies
\* the running mult by its value.
CexC5 ==
    (/\ jk_last.called
     /\ jk_last.exc = NoExc
     /\ \A i \in DOMAIN JkList : C5Covered(JkList[i]))
    => <<jk_last.chips, jk_last.mult>> =
           C5Fold(JkList, jk_last.hand, jk_last.cards,
                  jk_last.hand.chips, jk_last.hand.mult)

\* C6: a joker that does not trigger (its trigger is neither "always" nor
\* "on_scored" with a condition that holds for the line) leaves chips, mult
\* and its own growth value unchanged.
ThmC6 ==
    jk_last.called =>
        \A i \in DOMAIN jk_last.ids :
            (JkReached(i) /\ ~Triggers(JkJoker(i), jk_last.hand, jk_last.cards))
            => /\ JkAfter(i).exc = NoExc
               /\ JkAfter(i).chips = JkAfter(i - 1).chips
               /\ JkAfter(i).mult = JkAfter(i - 1).mult
               /\ JkAfter(i).js[jk_last.ids[i]] = JkJoker(i)
               /\ jokers[jk_last.ids[i]] = jk_last.pre[jk_last.ids[i]]

\* a call in which an on_scored joker's condition fails while another joker
\* of the list changes the score
WitC6 ==
    /\ jk_last.called
    /\ jk_last.exc = NoExc
    /\ \E i \in DOMAIN jk_last.ids :
          /\ JkJoker(i).trigger = "on_scored"
          /\ JkJoker(i).condition_type = "hand_type"
          /\ ~Triggers(JkJoker(i), jk_last.hand, jk_last.cards)
    /\ <<jk_last.chips, jk_last.mult>> # <<jk_last.hand.chips, jk_last.hand.mult>>

IsGrowing(j) == j.effect_type = "growing" /\ j.bonus_value.kind = "float"

\* the growth of the i-th joker in the last call is exactly d halves
JkGrewBy(i, d) ==
    /\ JkAfter(i).js[jk_last.ids[i]].current_bonus.half =
           JkJoker(i).current_bonus.half + d
    /\ jokers[jk_last.ids[i]].current_bonus.half =
           jk_last.pre[jk_last.ids[i]].current_bonus.half + d

CexC8 == jk_last.called => jk_last.exc = NoExc

(***************************************************************************)
(* C1 - C3: the top-K line scorer.                                         *)
(***************************************************************************)
\* score_current_grid has returned (no exception)
ScReturned == sc_result.called /\ sc_result.exc = NoExc

\* chips * mult of the returned row hands followed by the column hands
ScHandScores ==
    LET hands == sc_result.row_hands \o sc_result.col_hands
    IN  [i \in DOMAIN hands |-> hands[i].chips * hands[i].mult]

\* the number of lines "the K largest" are: K, or all when fewer were scored
ScWanted ==
    LET n == Len(ScHandScores)
    IN  IF lines_scored_per_spin < 0 THEN 0
        ELSE IF lines_scored_per_spin > n THEN n
        ELSE lines_scored_per_spin

ScTop == sc_result.top_lines

ScSelected(line) ==
    \E i \in DOMAIN ScTop : ScTop[i].type = line.type /\ ScTop[i].index = line.index

\* C1: the returned total is the sum of the K largest line scores among the
\* scored rows and columns (of all of them when fewer than K were scored),
\* and it is the sum over the selected lines only.
ThmC1 ==
    ScReturned =>
        LET asc == SortedInts(ScHandScores)
            n == Len(asc)
        IN  /\ sc_result.total_score = PySum(SubSeq(asc, n - ScWanted + 1, n))
            /\ Len(ScTop) = ScWanted
            /\ sc_result.total_score = PySum([i \in DOMAIN ScTop |-> ScTop[i].score])

\* a scored grid with more than K lines, K >= 1, and a line left out of the
\* total although its score is positive
WitC1 ==
    /\ ScReturned
    /\ lines_scored_per_spin >= 1
    /\ Len(ScHandScores) > lines_scored_per_spin
    /\ sc_result.total_score < PySum(ScHandScores)
    /\ \E i \in DOMAIN ScTop : ScTop[i].hand.mult > 1

\* C2 as stated: dense ranking of the selected lines (first is 1, then the
\* previous rank when the score repeats, the previous rank plus 1 otherwise).
CexC2 ==
    ScReturned =>
        \A i \in DOMAIN ScTop :
            ScTop[i].rank =
                IF i = 1 THEN 1
                ELSE IF ScTop[i].score = ScTop[i - 1].score THEN ScTop[i - 1].rank
                ELSE ScTop[i - 1].rank + 1

\* C2: a selected line has rank 1 when its score equals the first selected
\* line's score, otherwise rank 2 when it equals the second selected line's
\* score, otherwise rank 3; lines of equal score carry the same label.
ThmC2 ==
    ScReturned =>
        /\ \A i \in DOMAIN ScTop :
              ScTop[i].rank =
                  IF ScTop[i].score = ScTop[1].score THEN 1
                  ELSE IF ScTop[i].score = ScTop[2].score THEN 2
                  ELSE 3
        /\ \A i, j \in DOMAIN ScTop :
              ScTop[i].score = ScTop[j].score => ScTop[i].rank = ScTop[j].rank

\* three or more selected lines, the first two tied above the third, which
\* is labelled 3
WitC2 ==
    /\ ScReturned
    /\ Len(ScTop) >= 3
    /\ ScTop[1].score = ScTop[2].score
    /\ ScTop[3].score < ScTop[2].score
    /\ ScTop[3].rank = 3

\* a comes before b: higher score, or equal score and row before column,
\* or equal score, same kind and lower index
ScBefore(a, b) ==
    \/ a.score > b.score
    \/ /\ a.score = b.score
       /\ \/ a.type = "row" /\ b.type = "col"
          \/ a.type = b.type /\ a.index < b.index

\* C3: the selected lines are scored lines listed in the order of ScBefore,
\* and every scored line left out comes after every selected one.
ThmC3 ==
    ScReturned =>
        /\ \A i, j \in DOMAIN ScTop : i < j => ScBefore(ScTop[i], ScTop[j])
        /\ \A i \in DOMAIN ScTop : \E l \in DOMAIN sc_result.all_lines :
              /\ sc_result.all_lines[l].type = ScTop[i].type
              /\ sc_result.all_lines[l].index = ScTop[i].index
              /\ sc_result.all_lines[l].score = ScTop[i].score
        /\ \A l \in DOMAIN sc_result.all_lines :
              ~ScSelected(sc_result.all_lines[l]) =>
                  \A i \in DOMAIN ScTop : ScBefore(ScTop[i], sc_result.all_lines[l])

\* a tie at the cutoff: a row and a column of equal score are both selected,
\* the row first, and a line of the last selected score is left out
WitC3 ==
    /\ ScReturned
    /\ \E i, j \in DOMAIN ScTop :
          /\ i < j
          /\ ScTop[i].score = ScTop[j].score
          /\ ScTop[i].type = "row"
          /\ ScTop[j].type = "col"
    /\ \E l \in DOMAIN sc_result.all_lines :
          /\ ~ScSelected(sc_result.all_lines[l])
          /\ sc_result.all_lines[l].score = ScTop[Len(ScTop)].score

(***************************************************************************)
(* C9 - C10: the Monte Carlo evaluator.                                    *)
(***************************************************************************)
\* C9 as stated: a call with samples = 0 returns 0.0 and does not raise.
CexC9 ==
    (mc_last.called /\ mc_last.samples = 0) =>
        (mc_last.exc = NoExc /\ mc_last.num = 0)

\* C10: every sample's jokers start with the field values (accumulated
\* growth included) the caller's jokers had at call time, and the caller's
\* jokers have the same field values after the call as before it.
ThmC10 ==
    mc_last.called =>
        /\ \A n \in DOMAIN mc_last.hist : mc_last.hist[n].start = mc_last.before
        /\ mc_last.after = mc_last.before

\* a call of two or more samples with a growing joker that had already
\* accumulated growth at call time and grew again while the first sample
\* was scored
WitC10 ==
    /\ mc_last.called
    /\ mc_last.exc = NoExc
    /\ Len(mc_last.hist) >= 2
    /\ \E i \in DOMAIN mc_last.before :
          /\ mc_last.before[i].effect_type = "growing"
          /\ mc_last.before[i].current_bonus.half > 0
          /\ mc_last.hist[1].end[i].current_bonus.half >
                 mc_last.hist[1].start[i].current_bonus.half

(***************************************************************************)
(* C11 - C12: the samples of the Monte Carlo evaluator.                    *)
(***************************************************************************)
C11Deck == {create_deck[i] : i \in DOMAIN create_deck}

C11Cells == (0..(grid_rows - 1)) \X (0..(grid_cols - 1))

C11Listed(cell) ==
    \E i \in DOMAIN mc_last.frozen_cells : mc_last.frozen_cells[i] = cell

\* C11 as stated: in every sample each cell listed in frozen_cells holds
\* exactly what the caller's grid holds there and every other cell holds a
\* card of the deck.
CexC11 ==
    mc_last.called =>
        \A n \in DOMAIN mc_last.hist : \A cell \in C11Cells :
            IF C11Listed(cell)
            THEN mc_last.hist[n].temp_cards[cell[1]][cell[2]] =
                     mc_last.grid_cards[cell[1]][cell[2]]
            ELSE mc_last.hist[n].temp_cards[cell[1]][cell[2]] \in C11Deck

\* a listed cell keeps its card only when it holds one
C11Kept(cell) ==
    C11Listed(cell) /\ mc_last.grid_cards[cell[1]][cell[2]] # NoCard

C11Samples ==
    mc_last.called =>
        \A n \in DOMAIN mc_last.hist : \A cell \in C11Cells :
            IF C11Kept(cell)
            THEN mc_last.hist[n].temp_cards[cell[1]][cell[2]] =
                     mc_last.grid_cards[cell[1]][cell[2]]
            ELSE mc_last.hist[n].temp_cards[cell[1]][cell[2]] \in C11Deck

C11Frame == (mc_calls' # mc_calls) => (grid' = grid /\ frozen_cells' = frozen_cells)

\* C11 amended: in every sample each cell listed in frozen_cells that holds
\* a card in the caller's grid holds that card, and every other cell (a
\* listed cell without a card included) holds a card of the 52-card deck,
\* drawn with replacement; a call leaves the grid and the frozen cells of
\* the caller's state as they were.
ThmC11 == [] C11Samples /\ [][C11Frame]_vars

\* a call on a dealt grid with listed cells, where the first sample kept the
\* listed cards and drew one card twice for two other cells
WitC11 ==
    /\ mc_last.called
    /\ mc_last.exc = NoExc
    /\ Len(mc_last.hist) >= 1
    /\ \E cell \in C11Cells : C11Kept(cell)
    /\ \E a \in C11Cells : \E b \in C11Cells :
          /\ a # b
          /\ ~C11Listed(a)
          /\ ~C11Listed(b)
          /\ mc_last.hist[1].temp_cards[a[1]][a[2]] =
                 mc_last.hist[1].temp_cards[b[1]][b[2]]

\* C12 as stated: two calls with the same grid, frozen cells, jokers, config
\* and samples, each given an rng of the same seed, return the same value.
CexC12 ==
    (/\ mc_last.called
     /\ mc_prev.called
     /\ mc_last.exc = NoExc
     /\ mc_prev.exc = NoExc
     /\ mc_last.samples > 0
     /\ mc_last.samples = mc_prev.samples
     /\ mc_last.rng_seed = mc_prev.rng_seed
     /\ mc_last.grid_cards = mc_prev.grid_cards
     /\ mc_last.frozen_cells = mc_prev.frozen_cells
     /\ mc_last.before = mc_prev.before)
    => mc_last.num = mc_prev.num

(***************************************************************************)
(* C13: the shop recommendation of NormalAIManager.                        *)
(***************************************************************************)
C13Asked == ai_last.called /\ ai_last.op = "shop" /\ ai_last.ai = "normal"

\* a +m or +c joker the player can afford
C13Simple(item) ==
    /\ item.joker # NoJoker
    /\ item.joker.bonus_type \in {"+m", "+c"}
    /\ money >= item.joker.cost

C13Buys ==
    /\ joker_manager # "None"
    /\ Len(active_jokers) < MaxSlots
    /\ \E i \in DOMAIN ai_last.shop_display : C13Simple(ai_last.shop_display[i])

\* position (from 0) of the first such item of the display
C13First ==
    (CHOOSE i \in DOMAIN ai_last.shop_display :
        /\ C13Simple(ai_last.shop_display[i])
        /\ \A k \in 1..(i - 1) : ~C13Simple(ai_last.shop_display[k])) - 1

\* C13 as stated: ("buy", first affordable +m/+c item) with a free slot, and
\* ("none", -1) in every other case.
CexC13 ==
    C13Asked =>
        ai_last.result = IF C13Buys THEN <<"buy", C13First>> ELSE <<"none", -1>>

\* C13 amended: ("buy", i) for the first shop item i that is a +m or +c
\* joker the player can afford, when the joker manager has a free slot;
\* otherwise ("reroll", -1) when there is a joker manager and the player can
\* afford reroll_cost; ("none", -1) in every other case.
ThmC13 ==
    C13Asked =>
        ai_last.result =
            IF C13Buys THEN <<"buy", C13First>>
            ELSE IF joker_manager # "None" /\ money >= ai_last.reroll_cost
                 THEN <<"reroll", -1>>
                 ELSE <<"none", -1>>

\* a buy of an item that is not the first of the display
WitC13 ==
    /\ C13Asked
    /\ ai_last.result[1] = "buy"
    /\ ai_last.result[2] >= 1

(***************************************************************************)
(* C16: the shop recommendation of SmartAIManager.                         *)
(***************************************************************************)
C16Asked == ai_last.called /\ ai_last.op = "shop" /\ ai_last.ai = "smart"

C16Held == [i \in DOMAIN active_jokers |-> jokers[active_jokers[i]]]

\* the shop items the player can afford
C16Affordable ==
    { i \in DOMAIN ai_last.shop_display :
        /\ ai_last.shop_display[i].joker # NoJoker
        /\ money >= ai_last.shop_display[i].cost }

C16Value(i) == evaluate_joker_value(ai_last.shop_display[i].joker, C16Held)

\* C16 as stated, first decision: with a free joker slot and an affordable
\* shop item, the answer is to buy an affordable item of the highest value
\* among the affordable ones.
CexC16 ==
    (/\ C16Asked
     /\ joker_manager # "None"
     /\ Len(active_jokers) < MaxSlots
     /\ C16Affordable # {})
    => /\ ai_last.result[1] = "buy"
       /\ \E i \in C16Affordable :
             /\ ai_last.result[2] = ai_last.shop_display[i].index
             /\ \A k \in C16Affordable : ~ScoreLess(C16Value(i), C16Value(k))

(***************************************************************************)
(* C14: NormalAIManager.recommend_freezes returns at most max_to_freeze    *)
(* cells, chosen by strict priority: a pair of equal-rank cards in one row *)
(* or one column, of the highest such rank; when there is no such pair,    *)
(* the two highest-ranked cards sharing a suit; when there is neither, no  *)
(* cell.                                                                   *)
(***************************************************************************)
C14Asked == ai_last.called /\ ai_last.ai = "normal" /\ ai_last.op = "freeze"

\* the cells of the grid asked about that hold a card
C14Cells ==
    { cell \in (0..(grid_rows - 1)) \X (0..(grid_cols - 1)) :
          ai_last.grid[cell[1]][cell[2]].card # NoCard }

C14Card(cell) == ai_last.grid[cell[1]][cell[2]].card

C14Aligned(p, q) ==
    /\ p # q
    /\ C14Card(p).rank = C14Card(q).rank
    /\ (p[1] = q[1] \/ p[2] = q[2])

C14Suited(p, q) == p # q /\ C14Card(p).suit = C14Card(q).suit

C14Rank(cell) == get_rank_value(C14Card(cell))

\* the result is the first max_to_freeze cells of the pair p, q
C14Returns(p, q) ==
    \/ ai_last.result = PyPrefix(<<p, q>>, ai_last.max_to_freeze)
    \/ ai_last.result = PyPrefix(<<q, p>>, ai_last.max_to_freeze)

C14ByAligned ==
    \E p \in C14Cells : \E q \in C14Cells :
        /\ C14Aligned(p, q)
        /\ \A p2 \in C14Cells : \A q2 \in C14Cells :
               C14Aligned(p2, q2) => C14Rank(p2) <= C14Rank(p)
        /\ C14Returns(p, q)

C14BySuited ==
    \E p \in C14Cells : \E q \in C14Cells :
        /\ C14Suited(p, q)
        /\ \A p2 \in C14Cells : \A q2 \in C14Cells :
               C14Suited(p2, q2)
                   => C14Rank(p2) + C14Rank(q2) <= C14Rank(p) + C14Rank(q)
        /\ C14Returns(p, q)

C14HasAligned == \E p \in C14Cells : \E q \in C14Cells : C14Aligned(p, q)

C14HasSuited == \E p \in C14Cells : \E q \in C14Cells : C14Suited(p, q)

ThmC14 ==
    C14Asked =>
        /\ Len(ai_last.result) <= ai_last.max_to_freeze
        /\ IF C14HasAligned THEN C14ByAligned
           ELSE IF C14HasSuited THEN C14BySuited
           ELSE ai_last.result = <<>>

\* an aligned pair is returned although two cards sharing a suit, not
\* aligned with equal ranks, have a higher rank sum
WitC14 ==
    /\ C14Asked
    /\ ai_last.max_to_freeze = 2
    /\ Len(ai_last.result) = 2
    /\ C14Aligned(ai_last.result[1], ai_last.result[2])
    /\ \E p \in C14Cells : \E q \in C14Cells :
           /\ C14Suited(p, q)
           /\ ~ C14Aligned(p, q)
           /\ C14Rank(p) + C14Rank(q)
                  > C14Rank(ai_last.result[1]) + C14Rank(ai_last.result[2])

(***************************************************************************)
(* C15: SmartAIManager.recommend_freezes, asked for at least one cell,     *)
(* returns the first candidate in generation order whose estimated EV is   *)
(* the maximum over the evaluated candidates; the candidate list starts    *)
(* with the empty set, holds at most CANDIDATE_CAP entries, no set twice,  *)
(* and every candidate has at most max_to_freeze cells, each holding a     *)
(* card.                                                                   *)
(***************************************************************************)
C15Asked ==
    /\ ai_last.called
    /\ ai_last.ai = "smart"
    /\ ai_last.op = "freeze"
    /\ ai_last.exc = NoExc
    /\ ai_last.max_to_freeze > 0

\* the EV of candidate j is below that of candidate k
C15Below(j, k) ==
    ai_last.evs[j].num * ai_last.evs[k].den
        < ai_last.evs[k].num * ai_last.evs[j].den

\* candidate k is the first with the maximum EV
C15FirstMax(k) ==
    /\ \A j \in DOMAIN ai_last.candidates : ~ C15Below(k, j)
    /\ \A j \in 1..(k - 1) : C15Below(j, k)

C15Range(s) == { s[i] : i \in DOMAIN s }

C15Candidates ==
    /\ Len(ai_last.candidates) >= 1
    /\ ai_last.candidates[1] = <<>>
    /\ Len(ai_last.candidates) <= CANDIDATE_CAP
    /\ Len(ai_last.evs) = Len(ai_last.candidates)
    /\ \A k \in DOMAIN ai_last.candidates :
           /\ Len(ai_last.candidates[k]) <= ai_last.max_to_freeze
           /\ \A i \in DOMAIN ai_last.candidates[k] :
                  ai_last.grid[ai_last.candidates[k][i][1]]
                              [ai_last.candidates[k][i][2]].card # NoCard
           /\ \A j \in 1..(k - 1) :
                  C15Range(ai_last.candidates[j]) # C15Range(ai_last.candidates[k])

ThmC15 ==
    C15Asked =>
        /\ C15Candidates
        /\ \E k \in DOMAIN ai_last.candidates :
               /\ ai_last.result = ai_last.candidates[k]
               /\ C15FirstMax(k)

\* five candidates were evaluated and one that is not the empty set was
\* returned, its EV above that of the empty set
WitC15 ==
    /\ C15Asked
    /\ Len(ai_last.candidates) = 5
    /\ \E k \in 2..5 :
           /\ ai_last.result = ai_last.candidates[k]
           /\ C15Below(1, k)

(***************************************************************************)
(* C17: the Twin Hands PokerEvaluator.evaluate_hand never raises: for      *)
(* fewer than 1 or more than 5 cards it returns hand_type Invalid with     *)
(* base score 0, and for 1 to 5 cards it returns a hand whose base score   *)
(* is the HAND_SCORES value of the hand_type it reports.                   *)
(***************************************************************************)
\* evaluate_hand was called on cards whose ranks CardResource documents
\* ("2".."9", "T", "J", "Q", "K", "A")
C17Asked ==
    /\ th_hand.called
    /\ th_hand.by = "PokerEvaluator"
    /\ \A i \in DOMAIN th_hand.cards : th_hand.cards[i].rank \in RANK_VALUES_keys

CexC17 ==
    C17Asked =>
        /\ th_hand.exc = NoExc
        /\ IF Len(th_hand.cards) < 1 \/ Len(th_hand.cards) > 5
           THEN th_hand.hand.hand_type = "Invalid" /\ th_hand.hand.base_score = 0
           ELSE /\ th_hand.hand.hand_type \in TwinHands_HAND_SCORES_keys
                /\ th_hand.hand.base_score
                       = TwinHands_HAND_SCORES(th_hand.hand.hand_type)

(***************************************************************************)
(* C18: ScoringManager.evaluate_hand never classifies a hand of 2 or 3     *)
(* cards as Flush: 2 or 3 cards of one suit that contain no pair and no    *)
(* three of a kind are High Card with base score 3.                        *)
(***************************************************************************)
C18Asked ==
    /\ th_hand.called
    /\ th_hand.by = "ScoringManager"
    /\ Len(th_hand.cards) \in {2, 3}

C18OneSuit ==
    \A i \in DOMAIN th_hand.cards : th_hand.cards[i].suit = th_hand.cards[1].suit

C18NoPair ==
    \A i \in DOMAIN th_hand.cards : \A j \in DOMAIN th_hand.cards :
        i # j => th_hand.cards[i].rank # th_hand.cards[j].rank

CexC18 ==
    C18Asked =>
        /\ th_hand.exc = NoExc => th_hand.hand.hand_type # "Flush"
        /\ (C18OneSuit /\ C18NoPair) =>
               /\ th_hand.exc = NoExc
               /\ th_hand.hand.hand_type = "High Card"
               /\ th_hand.hand.base_score = 3

(***************************************************************************)
(* C19: in every state reached after start_game by play_hand,              *)
(* discard_cards and trade_card calls, hands_played_per_deck[d] is at most *)
(* max_hands_per_deck for every deck d and discard_tokens and trade_tokens *)
(* are at least 0; a play, discard or trade attempted when its limit is    *)
(* exhausted returns success = False and changes no counter and no pile.   *)
(***************************************************************************)
C19Limits ==
    gm_starts > 0 =>
        /\ \A d \in DOMAIN hands_played_per_deck :
               hands_played_per_deck[d] <= th_config.max_hands_per_deck
        /\ discard_tokens >= 0
        /\ trade_tokens >= 0

\* the limit of the call was exhausted when it was made
C19Exhausted(call) ==
    \/ /\ call.op = "play_hand"
       /\ hands_played_per_deck[call.deck_index + 1] >= th_config.max_hands_per_deck
    \/ call.op = "discard_cards" /\ discard_tokens <= 0
    \/ call.op = "trade_card" /\ trade_tokens <= 0

C19Refused ==
    (gm_starts > 0 /\ gm_calls' # gm_calls /\ C19Exhausted(gm_last'.call)) =>
        /\ gm_last'.exc = NoExc
        /\ gm_last'.success = FALSE
        /\ UNCHANGED <<decks, hands_played_per_deck, discard_tokens,
                       trade_tokens, _hands_played>>

C20Trade ==
    /\ gm_starts > 0
    /\ gm_calls' # gm_calls
    /\ gm_last'.call.op = "trade_card"

C20Source == gm_last'.call.source_deck + 1

C20Target == gm_last'.call.target_deck + 1

C20Invalid ==
    \/ trade_tokens <= 0
    \/ C20Source = C20Target
    \/ Len(decks[C20Source].visible_cards) = 0
    \/ gm_last'.call.card_index < 0
    \/ gm_last'.call.card_index >= Len(decks[C20Source].visible_cards)

C20Moved ==
    /\ ~ C20Invalid
    /\ decks'[C20Target].visible_cards
           = Append(decks[C20Target].visible_cards,
                    decks[C20Source].visible_cards[gm_last'.call.card_index + 1])
    /\ Len(decks'[C20Target].visible_cards)
           = Len(decks[C20Target].visible_cards) + 1
    /\ Len(decks'[C20Source].visible_cards) = Len(decks[C20Source].visible_cards)
    /\ SubSeq(decks'[C20Source].visible_cards, 1,
              Len(decks[C20Source].visible_cards) - 1)
           = PyPopped(decks[C20Source].visible_cards, gm_last'.call.card_index)
    /\ trade_tokens' = trade_tokens - 1
    /\ UNCHANGED <<hands_played_per_deck, discard_tokens, _hands_played>>

C20Step ==
    C20Trade =>
        /\ gm_last'.exc = NoExc
        /\ gm_last'.success => C20Moved
        /\ C20Invalid =>
               /\ gm_last'.success = FALSE
               /\ UNCHANGED <<decks, hands_played_per_deck, discard_tokens,
                              trade_tokens, _hands_played>>

C21Played ==
    /\ gm_starts > 0
    /\ gm_calls' # gm_calls
    /\ gm_last'.call.op = "play_hand"
    /\ gm_last'.exc = NoExc
    /\ gm_last'.success

C21Deck == gm_last'.call.deck_index + 1

\* the visible cards the caller selected
C21Selected ==
    { PyAt(decks[C21Deck].visible_cards, gm_last'.call.card_indices[k]) :
          k \in DOMAIN gm_last'.call.card_indices }

C21Range(list) == { list[i] : i \in DOMAIN list }

CexC21 ==
    [][C21Played =>
          /\ _hands_played'[Len(_hands_played')].cards
                 = CardsAt(decks[C21Deck].visible_cards,
                           gm_last'.call.card_indices)
          /\ C21Range(decks'[C21Deck].discard_pile)
                 = C21Range(decks[C21Deck].discard_pile) \cup C21Selected
          /\ C21Selected \cap C21Range(decks'[C21Deck].visible_cards) = {}
          /\ C21Range(decks[C21Deck].visible_cards) \ C21Selected
                 \subseteq C21Range(decks'[C21Deck].visible_cards)]_vars

(***************************************************************************)
(* C22: in every state reachable through freeze_cell, unfreeze_cell,       *)
(* unfreeze_all, toggle_freeze, auto_freeze_highest_pair and               *)
(* start_new_round, the number of frozen cells is at most                  *)
(* config.max_freezes and no cell is listed twice in frozen_cells;         *)
(* freezing an already frozen cell, or freezing any cell when the maximum  *)
(* is reached, returns False and changes nothing.                          *)
(***************************************************************************)
C22Grid == (0..(grid_rows - 1)) \X (0..(grid_cols - 1))

\* the cells of the grid whose is_frozen flag is set
C22Flagged == { cell \in C22Grid : grid[cell[1]][cell[2]].is_frozen }

C22Bounded ==
    /\ Len(frozen_cells) <= max_freezes
    /\ Cardinality(C22Flagged) <= max_freezes
    /\ \A i \in DOMAIN frozen_cells : \A j \in DOMAIN frozen_cells :
           i # j => frozen_cells[i] # frozen_cells[j]

\* a freeze of the cell gr_last'.args is attempted in this step: by
\* freeze_cell, or by toggle_freeze (with the freeze system enabled) on a
\* cell of the grid that is not frozen
C22Freezing ==
    /\ gr_calls' # gr_calls
    /\ \/ gr_last'.op = "freeze_cell"
       \/ /\ gr_last'.op = "toggle_freeze"
          /\ gr_config.enable_freeze
          /\ gr_last'.args \in C22Grid \ C22Flagged

\* the cell is frozen already, or the maximum is reached
C22Full ==
    \/ Listed(frozen_cells, gr_last'.args[1], gr_last'.args[2])
    \/ gr_last'.args \in C22Flagged
    \/ Len(frozen_cells) >= max_freezes

C22Refused ==
    (C22Freezing /\ C22Full) =>
        /\ gr_last'.exc = NoExc
        /\ gr_last'.value = FALSE
        /\ UNCHANGED <<grid, frozen_cells, rng, spins_left, spins_taken,
                       reroll_tokens_left, current_round>>

C23Redraws ==
    /\ gr_calls' # gr_calls
    /\ gr_last'.op \in {"deal_grid", "play_spin", "reroll_columns"}

C23Kept ==
    C23Redraws =>
        /\ \A r \in 0..(grid_rows - 1) : \A c \in 0..(grid_cols - 1) :
               grid[r][c].is_frozen => grid'[r][c] = grid[r][c]
        /\ \A r \in 0..(grid_rows - 1) : \A c \in 0..(grid_cols - 1) :
               grid'[r][c].is_frozen = grid[r][c].is_frozen
        /\ frozen_cells' = frozen_cells

ThmC23 == [][C23Kept]_vars

\* column 0 was rerolled in a round whose cell (0, 0) holds a card and is
\* frozen
WitC23 ==
    /\ current_round > 0
    /\ gr_last.called
    /\ gr_last.op = "reroll_columns"
    /\ gr_last.value = TRUE
    /\ gr_last.args[1] = 0
    /\ grid[0][0].is_frozen
    /\ grid[0][0].card # NoCard
    /\ Listed(frozen_cells, 0, 0)

(***************************************************************************)
(* C24: reroll_columns succeeds exactly when the column list is non-empty, *)
(* every index lies in 0..grid_cols-1 and reroll_tokens_left is at least   *)
(* the number of listed columns times cost_per_column_reroll; on success   *)
(* exactly that cost is deducted, on failure neither the tokens nor any    *)
(* grid cell changes, and reroll_tokens_left is never negative.            *)
(***************************************************************************)
\* a reroll_columns call is made in this step
C24Rerolls ==
    /\ gr_calls' # gr_calls
    /\ gr_last'.op = "reroll_columns"

C24Cost == Len(gr_last'.args) * gr_config.cost_per_column_reroll

C24Valid ==
    /\ gr_last'.args # <<>>
    /\ \A k \in DOMAIN gr_last'.args : gr_last'.args[k] \in 0..(grid_cols - 1)
    /\ reroll_tokens_left >= C24Cost

C24Step ==
    C24Rerolls =>
        /\ gr_last'.exc = NoExc
        /\ gr_last'.value = C24Valid
        /\ gr_last'.value = TRUE => reroll_tokens_left' = reroll_tokens_left - C24Cost
        /\ gr_last'.value = FALSE =>
               /\ reroll_tokens_left' = reroll_tokens_left
               /\ grid' = grid

ThmC24 == [] (reroll_tokens_left >= 0) /\ [][C24Step]_vars

\* a reroll of five columns was paid for in this round, and a second one was
\* refused for want of tokens
WitC24 ==
    /\ current_round > 0
    /\ gr_last.called
    /\ gr_last.op = "reroll_columns"
    /\ gr_last.value = FALSE
    /\ gr_last.args = <<0, 1, 2, 3, 4>>
    /\ reroll_tokens_left = gr_config.reroll_tokens_per_quota - 5

(***************************************************************************)
(* C25: the total that estimate_expected_score accumulates for each sample *)
(* equals the total ScoreManager.score_current_grid returns for that       *)
(* sample's grid with the same jokers and the same configuration (the sum  *)
(* of the top config.lines_scored_per_spin line scores), and the returned  *)
(* value is the arithmetic mean of these per-sample totals.                *)
(***************************************************************************)
\* estimate_expected_score has returned a value
C25Returned == mc_last.called /\ mc_last.exc = NoExc

\* the grid of a state whose cells hold the sample's cards
C25Grid(temp_cards) ==
    [r \in 0..(grid_rows - 1) |-> [c \in 0..(grid_cols - 1) |->
        GridCellResource(temp_cards[r][c], FALSE)]]

\* score_current_grid on the sample h, by a ScoreManager whose JokerManager
\* holds the jokers the sample started with
C25Score(h) ==
    score_current_grid(C25Grid(h.temp_cards),
                       IF h.ids = <<>> THEN "None" ELSE "JokerManager",
                       h.start, [i \in DOMAIN h.start |-> i],
                       lines_scored_per_spin)

C25Totals == [i \in DOMAIN mc_last.hist |-> mc_last.hist[i].total]

CexC25 ==
    C25Returned =>
        /\ \A i \in DOMAIN mc_last.hist :
               /\ C25Score(mc_last.hist[i]).exc = NoExc
               /\ mc_last.hist[i].total = C25Score(mc_last.hist[i]).total_score
        /\ mc_last.num = PySum(C25Totals)
        /\ mc_last.den = Len(mc_last.hist)

(***************************************************************************)
(* C26: the value a growing joker applies.                                 *)
(***************************************************************************)
\* the loop of the recorded call c after its first i jokers
C26After(c, i) ==
    apply_joker_effects(c.pre, SubSeq(c.ids, 1, i), c.hand, c.cards,
                        c.hand.chips, c.hand.mult)

\* the joker object id triggered in the recorded call c and its iteration
\* ended without an exception
C26Fired(c, id) ==
    \E i \in DOMAIN c.ids :
        /\ c.ids[i] = id
        /\ C26After(c, i - 1).exc = NoExc
        /\ Triggers(C26After(c, i - 1).js[id], c.hand, c.cards)
        /\ C26After(c, i).exc = NoExc

\* the number of calls, up to and including c, in which id triggered
RECURSIVE C26Count(_, _)
C26Count(c, id) ==
    IF ~c.called THEN 0
    ELSE C26Count(c.prev, id) + (IF C26Fired(c, id) THEN 1 ELSE 0)

\* a joker like j that applies the fixed value n times j's step
C26Fixed(j, n) ==
    [j EXCEPT !.effect_type = "instant",
              !.bonus_value = FloatVal(n * j.bonus_value.half)]

\* the iteration on the i-th joker of the last call changed chips and mult
\* as an effect of value n times the step does
C26Applies(i, n) ==
    LET e == _apply_effect(C26Fixed(JkJoker(i), n), jk_last.hand, jk_last.cards,
                           JkAfter(i - 1).chips, JkAfter(i - 1).mult)
    IN  /\ e.exc = NoExc
        /\ JkAfter(i).exc = NoExc
        /\ JkAfter(i).chips = e.chips
        /\ JkAfter(i).mult = e.mult

\* the i-th joker of the last call is growing and has triggered
C26Case(i) ==
    /\ JkReached(i)
    /\ IsGrowing(JkJoker(i))
    /\ Triggers(JkJoker(i), jk_last.hand, jk_last.cards)

C30Joker(j) ==
    /\ j.trigger = "on_scored"
    /\ j.condition_type = "card_position"
    /\ j.condition_value = <<"first_face">>
    /\ get_effective_bonus(j).kind = "float"

\* the number of J, Q and K cards of the line
C30Faces(cards) ==
    Cardinality({k \in DOMAIN cards : cards[k].rank \in {"J", "Q", "K"}})

\* the i-th joker of the last call left the generic outcome g with its mult
\* multiplied once by the joker's value (truncated to an int)
C30Once(i, g) ==
    g.exc = NoExc =>
        /\ JkAfter(i).exc = NoExc
        /\ JkAfter(i).chips = g.chips
        /\ JkAfter(i).mult =
               (g.mult * get_effective_bonus(JkJoker(i)).half) \div 2

RECURSIVE C27Piles(_)
C27Piles(d) ==
    IF d > Len(decks) THEN <<>>
    ELSE decks[d].draw_pile \o decks[d].discard_pile \o decks[d].visible_cards
             \o C27Piles(d + 1)

\* C27: after start_game and any sequence of play_hand, discard_cards and
\* trade_card calls, successful or not, the draw, discard and visible piles
\* of all decks together hold each of the 52 cards exactly once.
CexC27 ==
    gm_starts > 0 =>
        /\ Len(C27Piles(1)) = 52
        /\ \A i \in 1..52 :
               Cardinality({k \in DOMAIN C27Piles(1) :
                                C27Piles(1)[k] = TwinHands_create_deck[i]}) = 1

(***************************************************************************)
(* C28: what play_hand accepts.                                            *)
(***************************************************************************)
\* a play_hand call on dealt decks ends in this step
C28Call ==
    /\ gm_starts > 0
    /\ gm_calls' # gm_calls
    /\ gm_last'.call.op = "play_hand"

\* the call returned a dict whose "success" is True
C28Success == gm_last'.exc = NoExc /\ gm_last'.success

C28Indices == gm_last'.call.card_indices

\* C28: every play_hand call that returns success = True has played between
\* 1 and 4 cards and recorded a hand whose type is not Invalid; a call with
\* an empty index list or with more than 4 indices returns success = False
\* and leaves hands_played_per_deck, the piles and the list of played hands
\* unchanged.
CexC28 ==
    [][C28Call =>
          /\ C28Success =>
                 /\ Len(C28Indices) \in 1..4
                 /\ Len(_hands_played') = Len(_hands_played) + 1
                 /\ _hands_played'[Len(_hands_played')].hand_type # "Invalid"
          /\ (Len(C28Indices) = 0 \/ Len(C28Indices) > 4) =>
                 /\ gm_last'.exc = NoExc
                 /\ ~ gm_last'.success
                 /\ UNCHANGED <<hands_played_per_deck, decks, _hands_played>>]_vars

(***************************************************************************)
(* C29: the spin counters.                                                 *)
(***************************************************************************)
C29Bounds ==
    /\ 0 <= spins_left
    /\ spins_left <= gr_config.max_spins

C29Sum == spins_left + spins_taken = gr_config.max_spins

\* a play_spin call ends in this step
C29Spin ==
    /\ gr_calls' # gr_calls
    /\ gr_last'.op = "play_spin"

\* play_spin deals only with spins left, and otherwise returns False and
\* leaves the grid alone
C29Step ==
    C29Spin =>
        IF spins_left > 0
        THEN /\ gr_last'.value = TRUE
             /\ grid' = deal_grid(grid, rng).grid
             /\ rng' # rng
        ELSE /\ gr_last'.value = FALSE
             /\ UNCHANGED <<grid, rng>>

\* C29: in every state reachable through start_new_round, play_spin and
\* complete_spin, 0 <= spins_left <= max_spins and spins_left + spins_taken
\* = max_spins; play_spin redeals the grid only when spins_left > 0 and
\* otherwise returns False and leaves the grid unchanged.
CexC29 == [] (C29Bounds /\ C29Sum) /\ [][C29Step]_vars

====
